---------------------------- MODULE Spec2Model ----------------------------
(***************************************************************************)
(* Model of the talentgrid domain kernel: value-object equality/hashing,   *)
(* the Employee aggregate's mutators, the AggregateRoot event buffer and   *)
(* version counter, soft delete, optimistic locking, and the domain event  *)
(* bus.                                                                    *)
(***************************************************************************)
EXTENDS Integers, Sequences, FiniteSets, TLC

VARIABLES
    voA,        \* first value object under comparison: [cls, values]
    voB,        \* second value object under comparison
    voOut,      \* result of the comparison: [done, eq, eqBack, hashA, hashB]
    now,        \* the wall clock read by new Date()
    agg,        \* an aggregate root: its class and fields
    aggLast,    \* the last call made on agg: operation, argument, error, state before
    aggHist,    \* history of agg: constructed version, calls counted, events added
    sd,         \* a soft-deletable entity or aggregate root
    sdLast,     \* the last call made on sd, and the last call that succeeded before it
    emp,        \* an Employee aggregate: its fields
    empLast,    \* the last call made on emp: operation, error raised, actor
    handlers,   \* DomainEventBus.handlers: event type name -> list of handlers
    publishes,  \* the publish(event) calls made so far, in call order
    batch,      \* the publishAll(events) call: events, their publishes, its promise
    calls,      \* the number of subscribe and publish calls made so far
    dates,      \* the Date objects of the caller and of a Dependent: their time values
    dep,        \* the Dependent constructed, if any
    depLast,    \* the last call made on Dependent and what it gave back
    ents,       \* two entity references a and b (b may be null)
    entOut,     \* a.equals(b), a.hashCode(), b.hashCode() as last computed
    resIn,      \* the Result / Either / Maybe values and functions under test
    resOut,     \* what the operations under test returned for resIn
    builder,     \* Specification objects made, a SpecificationBuilder's list, last call
    singleton   \* DomainEventBusSingleton.instance, the buses made, and the last call

voVars == <<voA, voB, voOut>>
aggVars == <<agg, aggLast, aggHist>>
sdVars == <<sd, sdLast>>
empVars == <<emp, empLast>>
busVars == <<handlers, publishes, batch, calls>>
depVars == <<dates, dep, depLast>>
entVars == <<ents, entOut>>
resVars == <<resIn, resOut>>
specVars == <<builder>>
singletonVars == <<singleton>>

\* what a step of one component leaves alone
AggOnly == UNCHANGED <<voVars, sdVars, empVars, busVars, depVars,
                       entVars, resVars,
                       specVars,
                       singletonVars>>
SDOnly == UNCHANGED <<voVars, aggVars, empVars, busVars, depVars,
                       entVars, resVars,
                       specVars,
                       singletonVars>>
EmpOnly == UNCHANGED <<voVars, aggVars, sdVars, busVars, depVars,
                       entVars, resVars,
                       specVars,
                       singletonVars>>
VOOnly == UNCHANGED <<now, aggVars, sdVars, empVars, busVars, depVars,
                       entVars, resVars,
                       specVars,
                       singletonVars>>
BusOnly == UNCHANGED <<now, voVars, aggVars, sdVars, empVars, depVars,
                       entVars, resVars,
                       specVars,
                       singletonVars>>
DepOnly == UNCHANGED <<voVars, aggVars, sdVars, empVars, busVars,
                       entVars, resVars,
                       specVars,
                       singletonVars>>
EntOnly == UNCHANGED <<voVars, aggVars, sdVars, empVars, busVars, depVars,
                       resVars,
                       specVars,
                       singletonVars>>
ResOnly == UNCHANGED <<now, voVars, aggVars, sdVars, empVars, busVars, depVars,
                       entVars,
                       specVars,
                       singletonVars>>
BuilderOnly == UNCHANGED <<now, voVars, aggVars, sdVars, empVars, busVars,
                           depVars, entVars, resVars,
                       singletonVars>>
SingletonOnly == UNCHANGED <<now, voVars, aggVars, sdVars, empVars, busVars,
                       depVars, entVars, resVars, specVars>>

vars == <<voA, voB, voOut, now, agg, aggLast, aggHist, sd, sdLast,
          emp, empLast, handlers, publishes, batch, calls,
          dates, dep, depLast, ents, entOut, resIn, resOut,
          builder,
          singleton>>

-----------------------------------------------------------------------------
(* JavaScript values.  Every value is a record of one shape so that any two *)
(* values are comparable:                                                  *)
(*   t    : "undef" | "null" | "bool" | "num" | "str" | "date" | "arr"     *)
(*          | "obj"                                                        *)
(*   n    : the number counted in halves (3 is 1.5), the boolean as 0/1,   *)
(*          or the Date's day of January 2010 (UTC midnight)               *)
(*   s    : the string's UTF-16 code units                                 *)
(*   kids : the array's elements, or the object's values in key order      *)
(*   keys : the object's own keys in insertion order (strings)             *)

JsUndef == [t |-> "undef", n |-> 0, s |-> <<>>, kids |-> <<>>, keys |-> <<>>]
JsNull == [t |-> "null", n |-> 0, s |-> <<>>, kids |-> <<>>, keys |-> <<>>]
JsBool(b) == [t |-> "bool", n |-> IF b THEN 1 ELSE 0, s |-> <<>>, kids |-> <<>>, keys |-> <<>>]
JsNum(halves) == [t |-> "num", n |-> halves, s |-> <<>>, kids |-> <<>>, keys |-> <<>>]
JsStr(codes) == [t |-> "str", n |-> 0, s |-> codes, kids |-> <<>>, keys |-> <<>>]
JsDate(day) == [t |-> "date", n |-> day, s |-> <<>>, kids |-> <<>>, keys |-> <<>>]
JsArr(items) == [t |-> "arr", n |-> 0, s |-> <<>>, kids |-> items, keys |-> <<>>]
JsObj(ks, vs) == [t |-> "obj", n |-> 0, s |-> <<>>, kids |-> vs, keys |-> ks]

-----------------------------------------------------------------------------
(* Each specification below exercises one component; the variables of the  *)
(* other components then rest at these values.                             *)

NoError == "none"

NoCall == [op |-> "none", arg |-> "none", error |-> NoError, pre |-> <<>>,
           prevOp |-> "none"]

NoOutcome == [done |-> FALSE, eq |-> FALSE, eqBack |-> FALSE, hashA |-> 0, hashB |-> 0]

VOIdle ==
    /\ voA = [cls |-> "Generic", values |-> <<JsUndef>>]
    /\ voB = [cls |-> "Generic", values |-> <<JsUndef>>]
    /\ voOut = NoOutcome

AggIdle ==
    /\ agg = [kind |-> "none", version |-> 0, domainEvents |-> <<>>,
              createdAt |-> 0, updatedAt |-> 0]
    /\ aggLast = NoCall
    /\ aggHist = [version0 |-> 0, increments |-> 0, added |-> <<>>, removals |-> 0]

EmpIdle ==
    /\ emp = [status |-> "none"]
    /\ empLast = [op |-> "none", error |-> NoError]

NoBatch == [state |-> "none", events |-> <<>>, pubs |-> <<>>]

BusIdle ==
    /\ handlers = <<>>
    /\ publishes = <<>>
    /\ batch = NoBatch
    /\ calls = 0

NoDependent == [state |-> "none"]

DepIdle ==
    /\ dates = <<>>
    /\ dep = NoDependent
    /\ depLast = [op |-> "none", error |-> NoError]

NullEntity == [cls |-> "null", id |-> [cls |-> "null", value |-> JsNull],
               createdAt |-> 0, updatedAt |-> 0, version |-> 0]

NoVerdict == [done |-> FALSE, eq |-> FALSE, hashA |-> 0, hashB |-> 0,
              op |-> "none", defaults |-> FALSE]

EntIdle ==
    /\ ents = [a |-> NullEntity, b |-> NullEntity]
    /\ entOut = NoVerdict

ResIdle ==
    /\ resIn = <<>>
    /\ resOut = <<>>

NoSpecCall == [op |-> "none", this |-> 0, other |-> 0, result |-> 0, pre |-> <<>>]

BuilderIdle ==
    builder = [objects |-> <<>>, specifications |-> <<>>, last |-> NoSpecCall,
               n |-> 0]

NoSingletonCall == [op |-> "none", result |-> 0, delivered |-> <<>>, type |-> "none",
                    known |-> 0, pre |-> <<>>]

SingletonIdle ==
    singleton = [instance |-> 0, buses |-> <<>>, known |-> 0, origin |-> "none",
                 since |-> <<>>, last |-> NoSingletonCall, n |-> 0]

SDIdle ==
    /\ sd = [kind |-> "none", deletedAt |-> <<>>, deletedBy |-> "undefined",
             updatedAt |-> 0]
    /\ sdLast = [op |-> "none", arg |-> "none", error |-> NoError, pre |-> <<>>,
                 prevOk |-> "none"]

-----------------------------------------------------------------------------
\* typeof v === 'object' && v !== null
IsObjectLike(v) == v.t \in {"date", "arr", "obj"}

\* Array.isArray(v)
IsArray(v) == v.t = "arr"

\* v === w for the operands the comparison routines can hand to ===: at
\* least one of them is a primitive (two object-like operands are always
\* routed to arraysEqual / objectsEqual before === is reached).
StrictEquals(v, w) ==
    /\ ~IsObjectLike(v)
    /\ ~IsObjectLike(w)
    /\ v.t = w.t
    /\ v.n = w.n
    /\ v.s = w.s

RECURSIVE DigitCodes(_)
\* String(n) for a non-negative integer, as code units
DigitCodes(n) ==
    IF n < 10 THEN <<48 + n>> ELSE DigitCodes(n \div 10) \o <<48 + (n % 10)>>

\* Object.keys(v): own enumerable string keys.  An array's are its indices,
\* a Date has none.
ObjectKeys(v) ==
    CASE v.t = "obj" -> v.keys
      [] v.t = "arr" -> [i \in 1..Len(v.kids) |-> DigitCodes(i - 1)]
      [] OTHER -> <<>>

\* v[key]: the own property, or undefined when there is none
GetProp(v, key) ==
    LET ks == ObjectKeys(v)
        hits == {i \in 1..Len(ks) : ks[i] = key}
    IN  IF hits = {} THEN JsUndef ELSE v.kids[CHOOSE i \in hits : TRUE]

RECURSIVE arraysEqual(_, _), objectsEqual(_, _)

\* The comparison of one pair of components, as written three times in the
\* source (in equals, arraysEqual and objectsEqual).
ComponentEqual(value, otherValue) ==
    IF IsArray(value) /\ IsArray(otherValue)
    THEN arraysEqual(value, otherValue)
    ELSE IF IsObjectLike(value) /\ IsObjectLike(otherValue)
         THEN objectsEqual(value, otherValue)
         ELSE StrictEquals(value, otherValue)

arraysEqual(arr1, arr2) ==
    IF Len(arr1.kids) # Len(arr2.kids) THEN FALSE
    ELSE \A index \in 1..Len(arr1.kids) :
            ComponentEqual(arr1.kids[index], arr2.kids[index])

objectsEqual(obj1, obj2) ==
    LET keys1 == ObjectKeys(obj1)
        keys2 == ObjectKeys(obj2)
    IN  IF Len(keys1) # Len(keys2) THEN FALSE
        ELSE \A k \in 1..Len(keys1) :
                ComponentEqual(GetProp(obj1, keys1[k]), GetProp(obj2, keys1[k]))

\* PrimitiveValueObject.equals(other) for a non-null other
equals(this, other) ==
    IF this.cls # other.cls THEN FALSE
    ELSE IF Len(this.values) # Len(other.values) THEN FALSE
    ELSE \A index \in 1..Len(this.values) :
            ComponentEqual(this.values[index], other.values[index])

-----------------------------------------------------------------------------
(* 32-bit arithmetic of the rolling hash.  A hash is a signed 32-bit       *)
(* integer; it is split in 16-bit halves so that no intermediate result    *)
(* leaves the 32-bit range.                                                *)

Half == 65536

Lo16(x) == x % Half
Hi16(x) == x \div Half

\* ToInt32 of hi * 2^16 + lo, for 0 <= lo < 2^16
Pack32(hi, lo) == (((hi + 32768) % Half) - 32768) * Half + lo

\* ((hash << 5) - hash + valueHash) & itself: 31 * hash + valueHash wrapped
\* to a signed 32-bit integer
HashStep(hash, valueHash) ==
    LET lo == Lo16(hash) * 31 + Lo16(valueHash)
        hi == Hi16(hash) * 31 + Hi16(valueHash) + (lo \div Half)
    IN  Pack32(hi, lo % Half)

RECURSIVE HashStringFrom(_, _, _)
\* The reduce of hashString from position i on, with the accumulator hash
\* (a 32-bit integer, evaluated at every step)
HashStringFrom(str, i, hash) ==
    IF i > Len(str) \/ hash \notin Int THEN hash
    ELSE HashStringFrom(str, i + 1, HashStep(hash, str[i]))

\* hashString(str): the fold over the code units, starting from 0
hashString(str) == HashStringFrom(str, 1, 0)

\* Date.prototype.toISOString for midnight UTC of a day of January 2010:
\* "2010-01-DDT00:00:00.000Z"
ToISOString(day) ==
    <<50, 48, 49, 48, 45, 48, 49, 45>>
    \o <<48 + (day \div 10), 48 + (day % 10)>>
    \o <<84, 48, 48, 58, 48, 48, 58, 48, 48, 46, 48, 48, 48, 90>>

\* String(x) for a non-negative number counted in halves
NumberCodes(halves) ==
    DigitCodes(halves \div 2) \o (IF halves % 2 = 1 THEN <<46, 53>> ELSE <<>>)

Quoted(codes) == <<34>> \o codes \o <<34>>

RECURSIVE JsonStringify(_), JsonItems(_, _), JsonMembers(_, _, _)

\* The elements of an array from position i on, comma separated; undefined
\* is written as null.
JsonItems(items, i) ==
    IF i > Len(items) THEN <<>>
    ELSE (IF i > 1 THEN <<44>> ELSE <<>>)
         \o (IF items[i].t = "undef" THEN <<110, 117, 108, 108>>
             ELSE JsonStringify(items[i]))
         \o JsonItems(items, i + 1)

\* The members of an object from position i on, in key order; a member
\* whose value is undefined is left out.
JsonMembers(obj, i, first) ==
    IF i > Len(obj.keys) THEN <<>>
    ELSE IF obj.kids[i].t = "undef" THEN JsonMembers(obj, i + 1, first)
    ELSE (IF first THEN <<>> ELSE <<44>>)
         \o Quoted(obj.keys[i]) \o <<58>> \o JsonStringify(obj.kids[i])
         \o JsonMembers(obj, i + 1, FALSE)

\* JSON.stringify(v) for a value other than undefined (strings here hold no
\* character that JSON escapes)
JsonStringify(v) ==
    CASE v.t = "null" -> <<110, 117, 108, 108>>
      [] v.t = "bool" -> IF v.n = 1 THEN <<116, 114, 117, 101>>
                         ELSE <<102, 97, 108, 115, 101>>
      [] v.t = "num" -> NumberCodes(v.n)
      [] v.t = "str" -> Quoted(v.s)
      [] v.t = "date" -> Quoted(ToISOString(v.n))
      [] v.t = "arr" -> <<91>> \o JsonItems(v.kids, 1) \o <<93>>
      [] v.t = "obj" -> <<123>> \o JsonMembers(v, 1, TRUE) \o <<125>>
      [] OTHER -> <<>>

RECURSIVE hashValue(_), CalculateHashFrom(_, _, _)

\* The reduce of calculateHash from position i on, with the accumulator hash
CalculateHashFrom(values, i, hash) ==
    IF i > Len(values) \/ hash \notin Int THEN hash
    ELSE CalculateHashFrom(values, i + 1, HashStep(hash, hashValue(values[i])))

\* calculateHash(values): the fold of hashValue over the list, from 0
calculateHash(values) == CalculateHashFrom(values, 1, 0)

hashValue(value) ==
    CASE value.t \in {"null", "undef"} -> 0
      [] value.t = "str" -> hashString(value.s)
      [] value.t = "num" -> value.n \div 2
      [] value.t = "bool" -> value.n
      [] value.t = "arr" -> calculateHash(value.kids)
      [] OTHER -> hashString(JsonStringify(value))

\* PrimitiveValueObject.hashCode()
hashCode(this) == calculateHash(this.values)

-----------------------------------------------------------------------------
(* Domain errors (types).  An error is the class that was thrown; its code *)
(* is the class's `code` field.  DomainError itself is abstract and        *)
(* declares `code` without a value, and a plain Error has no code.         *)

ErrorCode(cls) ==
    CASE cls = "ValidationError" -> "VALIDATION_ERROR"
      [] cls = "EntityNotFoundError" -> "ENTITY_NOT_FOUND"
      [] cls = "BusinessRuleViolationError" -> "BUSINESS_RULE_VIOLATION"
      [] cls = "OperationNotAllowedError" -> "OPERATION_NOT_ALLOWED"
      [] cls = "ConcurrencyError" -> "CONCURRENCY_ERROR"
      [] OTHER -> "undefined"

-----------------------------------------------------------------------------
(* Entity / AggregateRoot / OptimisticLockAggregateRoot.                   *)
(* Dates are clock readings; an optional Date is <<>> (undefined) or <<t>>.*)

MaxClock == 1          \* the clock stops advancing here
MaxInitVersion == 2    \* versions an aggregate is constructed with: 1..MaxInitVersion
MaxIncrements == 2     \* calls of incrementVersion() per run
MaxEvents == 3         \* events recorded between two commits
EventRefs == {"e1", "e2"}   \* the domain event objects at hand

AggKinds == {"AggregateRoot", "OptimisticLockAggregateRoot"}

\* new AggregateRoot(id, version, createdAt, updatedAt) with both dates given
InitAgg ==
    /\ now = 0
    /\ \E k \in AggKinds, v \in 1..MaxInitVersion :
          /\ agg = [kind |-> k, version |-> v, domainEvents |-> <<>>,
                    createdAt |-> 0, updatedAt |-> 0]
          /\ aggHist = [version0 |-> v, increments |-> 0, added |-> <<>>,
                        removals |-> 0]
    /\ aggLast = NoCall
    /\ VOIdle
    /\ SDIdle
    /\ EmpIdle
    /\ BusIdle
    /\ DepIdle
    /\ EntIdle
    /\ ResIdle
    /\ BuilderIdle
    /\ SingletonIdle

\* Entity.touch(): this._updatedAt = new Date()
touch(a) == [a EXCEPT !.updatedAt = now]

\* get version
version(a) == a.version

\* getUncommittedEvents(): a copy of the buffer
getUncommittedEvents(a) == [i \in 1..Len(a.domainEvents) |-> a.domainEvents[i]]

hasUncommittedEvents(a) == Len(a.domainEvents) > 0

getUncommittedEventsCount(a) == Len(a.domainEvents)

\* isModifiedSince(version)
isModifiedSince(a, v) == a.version > v

\* indexOf(event): the first position holding the event, 0 when absent
IndexOf(seq, x) ==
    IF \E i \in 1..Len(seq) : seq[i] = x
    THEN CHOOSE i \in 1..Len(seq) : seq[i] = x /\ \A j \in 1..(i - 1) : seq[j] # x
    ELSE 0

\* splice(index, 1)
SpliceOne(seq, index) ==
    [i \in 1..(Len(seq) - 1) |-> IF i < index THEN seq[i] ELSE seq[i + 1]]

Called(op, arg, error) ==
    [op |-> op, arg |-> arg, error |-> error, pre |-> <<agg>>, prevOp |-> aggLast.op]

\* this._version++ with the version two steps on
VersionAfterIncrementTwice(v) == v + 2

\* this._version++
VersionAfterIncrement(v) == v + 1

\* incrementVersion(): this._version++; this.touch()
incrementVersion ==
    /\ aggHist.increments < MaxIncrements
    /\ agg' = touch([agg EXCEPT !.version = VersionAfterIncrement(agg.version)])
    /\ aggLast' = Called("incrementVersion", "none", NoError)
    /\ aggHist' = [aggHist EXCEPT !.increments = @ + 1]
    /\ UNCHANGED now
    /\ AggOnly

\* unshift(event) in place of push(event)
BufferWithEventInFront(events, event) == <<event>> \o events

\* this._domainEvents.push(event)
BufferWithEvent(events, event) == Append(events, event)

\* addDomainEvent(event): push; touch()           (protected)
addDomainEvent ==
    /\ Len(aggHist.added) < MaxEvents
    /\ \E event \in EventRefs :
          /\ agg' = touch([agg EXCEPT !.domainEvents = BufferWithEvent(@, event)])
          /\ aggLast' = Called("addDomainEvent", event, NoError)
          /\ aggHist' = [aggHist EXCEPT !.added = Append(@, event)]
    /\ UNCHANGED now
    /\ AggOnly

\* removeDomainEvent(event): splice the first occurrence out   (protected)
removeDomainEvent ==
    /\ \E event \in EventRefs :
          LET index == IndexOf(agg.domainEvents, event)
          IN  /\ agg' = IF index > 0
                        THEN [agg EXCEPT !.domainEvents = SpliceOne(@, index)]
                        ELSE agg
              /\ aggLast' = Called("removeDomainEvent", event, NoError)
    /\ aggHist' = [aggHist EXCEPT !.removals = 1]
    /\ UNCHANGED now
    /\ AggOnly

\* clearDomainEvents(): this._domainEvents.length = 0          (protected)
clearDomainEvents ==
    /\ agg' = [agg EXCEPT !.domainEvents = <<>>]
    /\ aggLast' = Called("clearDomainEvents", "none", NoError)
    /\ aggHist' = [aggHist EXCEPT !.removals = 1]
    /\ UNCHANGED now
    /\ AggOnly

\* a drain that drops only the oldest event
BufferAfterPartialDrain(events) == IF events = <<>> THEN <<>> ELSE Tail(events)

\* this._domainEvents.length = 0
BufferAfterCommit(events) == <<>>

\* markEventsAsCommitted()
markEventsAsCommitted ==
    /\ agg' = [agg EXCEPT !.domainEvents = BufferAfterCommit(@)]
    /\ aggLast' = Called("markEventsAsCommitted", "none", NoError)
    /\ aggHist' = [aggHist EXCEPT !.added = <<>>, !.removals = 0]
    /\ UNCHANGED now
    /\ AggOnly

\* a subclass calls the protected touch()
aggTouch ==
    /\ agg' = touch(agg)
    /\ aggLast' = Called("touch", "none", NoError)
    /\ UNCHANGED <<aggHist, now>>
    /\ AggOnly

\* the error checkVersion throws on a mismatch: new DomainError(...)
VersionMismatchError == "DomainError"

\* the outcome of checkVersion(expectedVersion)
CheckVersionOutcome(a, expectedVersion) ==
    IF a.version # expectedVersion THEN VersionMismatchError ELSE NoError

\* checkVersion(expectedVersion)                 (OptimisticLockAggregateRoot)
checkVersion ==
    /\ agg.kind = "OptimisticLockAggregateRoot"
    /\ \E expectedVersion \in 1..(MaxInitVersion + MaxIncrements) :
          aggLast' = Called("checkVersion", expectedVersion,
                            CheckVersionOutcome(agg, expectedVersion))
    /\ UNCHANGED <<agg, aggHist, now>>
    /\ AggOnly

\* setVersion(version): loads the version of a stored aggregate (protected,
\* OptimisticLockAggregateRoot); the count of increments restarts from it
setVersion ==
    /\ agg.kind = "OptimisticLockAggregateRoot"
    /\ \E v \in 1..MaxInitVersion :
          /\ agg' = [agg EXCEPT !.version = v]
          /\ aggLast' = Called("setVersion", v, NoError)
          /\ aggHist' = [aggHist EXCEPT !.version0 = v, !.increments = 0]
    /\ UNCHANGED now
    /\ AggOnly

\* time passes
Tick ==
    /\ now < MaxClock
    /\ now' = now + 1

TickAgg == Tick /\ UNCHANGED aggVars /\ AggOnly

NextAgg ==
    \/ incrementVersion
    \/ addDomainEvent
    \/ removeDomainEvent
    \/ clearDomainEvents
    \/ markEventsAsCommitted
    \/ aggTouch
    \/ checkVersion
    \/ setVersion
    \/ TickAgg

SpecAgg == InitAgg /\ [][NextAgg]_vars

-----------------------------------------------------------------------------
(* SoftDeletableEntity and SoftDeletableAggregateRoot.                     *)

SDKinds == {"SoftDeletableEntity", "SoftDeletableAggregateRoot"}

\* who acts; "undefined" when the argument is left out
Actors == {"undefined", "alice", "bob"}

\* constructed live, or loaded with a deletedAt / deletedBy
InitSD ==
    /\ now = 0
    /\ \E k \in SDKinds, wasDeleted \in BOOLEAN, by \in Actors :
          /\ (~wasDeleted) => by = "undefined"
          /\ sd = [kind |-> k,
                   deletedAt |-> IF wasDeleted THEN <<0>> ELSE <<>>,
                   deletedBy |-> by,
                   updatedAt |-> 0]
    /\ sdLast = [op |-> "none", arg |-> "none", error |-> NoError, pre |-> <<>>,
                 prevOk |-> "none"]
    /\ VOIdle
    /\ AggIdle
    /\ EmpIdle
    /\ BusIdle
    /\ DepIdle
    /\ EntIdle
    /\ ResIdle
    /\ BuilderIdle
    /\ SingletonIdle

\* a flag that never reports a deletion
isDeletedNever(e) == FALSE

\* get isDeleted: this._deletedAt !== undefined
isDeleted(e) == e.deletedAt # <<>>

\* the class of the error delete() and restore() throw
SoftDeleteError(e) ==
    IF e.kind = "SoftDeletableAggregateRoot" THEN "DomainError" ELSE "Error"

\* the last delete or restore that succeeded, up to and including this call
LastOk == IF sdLast.error = NoError /\ sdLast.op \in {"delete", "restore"}
          THEN sdLast.op ELSE sdLast.prevOk

\* delete(deletedBy)
delete ==
    /\ \E deletedBy \in Actors :
          IF isDeleted(sd)
          THEN /\ sdLast' = [op |-> "delete", arg |-> deletedBy,
                             error |-> SoftDeleteError(sd), pre |-> <<sd>>,
                             prevOk |-> LastOk]
               /\ UNCHANGED sd
          ELSE /\ sd' = [sd EXCEPT !.deletedAt = <<now>>,
                                   !.deletedBy = deletedBy,
                                   !.updatedAt = now]
               /\ sdLast' = [op |-> "delete", arg |-> deletedBy, error |-> NoError,
                             pre |-> <<sd>>, prevOk |-> LastOk]
    /\ UNCHANGED now
    /\ SDOnly

\* restore()
restore ==
    /\ IF ~isDeleted(sd)
       THEN /\ sdLast' = [op |-> "restore", arg |-> "none",
                          error |-> SoftDeleteError(sd), pre |-> <<sd>>,
                          prevOk |-> LastOk]
            /\ UNCHANGED sd
       ELSE /\ sd' = [sd EXCEPT !.deletedAt = <<>>,
                                !.deletedBy = "undefined",
                                !.updatedAt = now]
            /\ sdLast' = [op |-> "restore", arg |-> "none", error |-> NoError,
                          pre |-> <<sd>>, prevOk |-> LastOk]
    /\ UNCHANGED now
    /\ SDOnly

\* any other operation of the class, which ends in touch()
sdTouch ==
    /\ sd' = [sd EXCEPT !.updatedAt = now]
    /\ sdLast' = [op |-> "touch", arg |-> "none", error |-> NoError,
                  pre |-> <<sd>>, prevOk |-> LastOk]
    /\ UNCHANGED now
    /\ SDOnly

TickSD == Tick /\ UNCHANGED sdVars /\ SDOnly

NextSD ==
    \/ delete
    \/ restore
    \/ sdTouch
    \/ TickSD

SpecSD == InitSD /\ [][NextSD]_vars

-----------------------------------------------------------------------------
(* The Employee aggregate (AuditableAggregateRoot).  Strings are code-unit *)
(* sequences; dates are clock readings, an optional date <<>> or <<t>>.    *)

StrAna == <<65, 110, 97>>
StrJoao == <<74, 111, 97, 111>>
StrBlank == <<32, 32, 32>>
StrDev == <<68, 101, 118>>
StrOps == <<79, 112, 115>>

\* the strings callers pass for names and places, and for position and department
NameInputs == {StrAna, StrBlank}
PlaceInputs == {StrJoao, <<65>>}
JobInputs == {StrDev, <<>>}
DeptInputs == {StrOps, <<32, 79, 32>>}

RECURSIVE TrimStart(_), TrimEnd(_)
TrimStart(str) ==
    IF str # <<>> /\ Head(str) = 32 THEN TrimStart(Tail(str)) ELSE str
TrimEnd(str) ==
    IF str # <<>> /\ str[Len(str)] = 32
    THEN TrimEnd(SubSeq(str, 1, Len(str) - 1)) ELSE str

\* String.prototype.trim()
Trim(str) == TrimEnd(TrimStart(str))

\* !s || s.trim().length < n
TooShort(str, n) == str = <<>> \/ Len(Trim(str)) < n

MinAge == 16

\* validateBasicData(): the error it throws, if any
validateBasicData(e) ==
    IF \/ TooShort(e.firstName, 2)
       \/ TooShort(e.lastName, 2)
       \/ e.birthDate > now
       \/ e.birthDate > now - MinAge
       \/ TooShort(e.nationality, 2)
       \/ TooShort(e.placeOfBirth, 2)
    THEN "ValidationError" ELSE NoError

\* validateProfessionalData()
validateProfessionalData(e) ==
    IF \/ TooShort(e.employeeId, 1)
       \/ TooShort(e.position, 2)
       \/ TooShort(e.department, 2)
       \/ e.hireDate > now
       \/ TooShort(e.workSchedule, 1)
       \/ TooShort(e.workLocation, 2)
    THEN "ValidationError" ELSE NoError

\* validateBusinessRules()
validateBusinessRules(e) ==
    IF \/ e.terminationDate # <<>> /\ e.terminationDate[1] <= e.hireDate
       \/ e.probationEndDate # <<>> /\ e.probationEndDate[1] <= e.hireDate
       \/ /\ e.status = "terminated"
          /\ e.terminationDate # <<>>
          /\ e.terminationDate[1] > now
    THEN "BusinessRuleViolationError" ELSE NoError

\* Employee.validate(): the first of the three checks that throws
validate(e) ==
    IF validateBasicData(e) # NoError THEN validateBasicData(e)
    ELSE IF validateProfessionalData(e) # NoError THEN validateProfessionalData(e)
    ELSE validateBusinessRules(e)

\* AuditableAggregateRoot.touch(updatedBy): super.touch(); _updatedBy = updatedBy
touchBy(e, updatedBy) == [e EXCEPT !.updatedAt = now, !.updatedBy = updatedBy]

MaxItems == 2   \* documents, contacts, addresses, dependents and benefits held at once

\* _additionalDocuments, _additionalContacts, _additionalAddresses,
\* _dependents, _benefits
Collections == {"documents", "contacts", "addresses", "dependents", "benefits"}

\* what removeX looks an element up by: its type, or a dependent's name
ItemKeys == {"k1", "k2"}

NoItems == [c \in Collections |-> <<>>]

ItemCount(e) == Len(e.items["documents"]) + Len(e.items["contacts"])
                + Len(e.items["addresses"]) + Len(e.items["dependents"])
                + Len(e.items["benefits"])

\* a live Employee whose fields satisfy validate()
InitEmp ==
    /\ now = 0
    /\ emp = [firstName |-> StrAna, lastName |-> StrAna,
              maritalStatus |-> "single", nationality |-> StrJoao,
              placeOfBirth |-> StrJoao, birthDate |-> 0 - 20,
              employeeId |-> <<49>>, position |-> StrDev, department |-> StrOps,
              hireDate |-> 0 - 1, workSchedule |-> <<57>>, workLocation |-> StrOps,
              salary |-> 1000, status |-> "active", terminationDate |-> <<>>,
              probationEndDate |-> <<>>, version |-> 1,
              createdAt |-> 0, updatedAt |-> 0, createdBy |-> "undefined",
              updatedBy |-> "undefined", items |-> NoItems,
              domainEvents |-> <<>>]
    /\ empLast = [op |-> "none", error |-> NoError]
    /\ validate(emp) = NoError
    /\ VOIdle
    /\ AggIdle
    /\ SDIdle
    /\ BusIdle
    /\ DepIdle
    /\ EntIdle
    /\ ResIdle
    /\ BuilderIdle
    /\ SingletonIdle

\* updatePersonalData(firstName, lastName, maritalStatus, nationality,
\* placeOfBirth, updatedBy): assign, touch, validate
updatePersonalData ==
    /\ \E firstName \in NameInputs, lastName \in NameInputs,
          maritalStatus \in {"single", "married"},
          nationality \in PlaceInputs, placeOfBirth \in PlaceInputs,
          updatedBy \in Actors :
          /\ emp' = touchBy([emp EXCEPT !.firstName = firstName,
                                        !.lastName = lastName,
                                        !.maritalStatus = maritalStatus,
                                        !.nationality = nationality,
                                        !.placeOfBirth = placeOfBirth],
                            updatedBy)
          /\ empLast' = [op |-> "updatePersonalData", error |-> validate(emp'),
                         actor |-> updatedBy]
    /\ UNCHANGED now
    /\ EmpOnly

\* updatePosition(position, department, updatedBy)
updatePosition ==
    /\ \E position \in JobInputs, department \in DeptInputs, updatedBy \in Actors :
          /\ emp' = touchBy([emp EXCEPT !.position = position,
                                        !.department = department],
                            updatedBy)
          /\ empLast' = [op |-> "updatePosition", error |-> validate(emp'),
                         actor |-> updatedBy]
    /\ UNCHANGED now
    /\ EmpOnly

\* updateSalary(salary, updatedBy)
updateSalary ==
    /\ \E salary \in {1000, 2000}, updatedBy \in Actors :
          /\ emp' = touchBy([emp EXCEPT !.salary = salary], updatedBy)
          /\ empLast' = [op |-> "updateSalary", error |-> validate(emp'),
                         actor |-> updatedBy]
    /\ UNCHANGED now
    /\ EmpOnly

\* terminate(terminationDate, updatedBy)
terminate ==
    /\ \E terminationDate \in (0 - 1)..(MaxClock + 1), updatedBy \in Actors :
          /\ emp' = touchBy([emp EXCEPT !.status = "terminated",
                                        !.terminationDate = <<terminationDate>>],
                            updatedBy)
          /\ empLast' = [op |-> "terminate", error |-> validate(emp'),
                         actor |-> updatedBy]
    /\ UNCHANGED now
    /\ EmpOnly

TickEmp == Tick /\ UNCHANGED empVars /\ EmpOnly

NextEmp ==
    \/ updatePersonalData
    \/ updatePosition
    \/ updateSalary
    \/ terminate
    \/ TickEmp

SpecEmp == InitEmp /\ [][NextEmp]_vars

\* addDocument, addContact, addAddress, addDependent, addBenefit:
\* push, then touch(updatedBy)
AddItem(op, coll) ==
    /\ ItemCount(emp) < MaxItems
    /\ \E item \in ItemKeys, updatedBy \in Actors :
          /\ emp' = touchBy([emp EXCEPT !.items[coll] = Append(@, item)],
                            updatedBy)
          /\ empLast' = [op |-> op, error |-> NoError, actor |-> updatedBy]
    /\ UNCHANGED now
    /\ EmpOnly

\* removeDocument, removeContact, removeAddress, removeDependent,
\* removeBenefit: findIndex; if (index > -1) { splice; touch(updatedBy) }
RemoveItem(op, coll) ==
    /\ \E key \in ItemKeys, updatedBy \in Actors :
          LET index == IndexOf(emp.items[coll], key)
          IN  /\ IF index > 0
                 THEN emp' = touchBy([emp EXCEPT !.items[coll] =
                                                    SpliceOne(@, index)],
                                     updatedBy)
                 ELSE emp' = emp
              /\ empLast' = [op |-> op, error |-> NoError, actor |-> updatedBy]
    /\ UNCHANGED now
    /\ EmpOnly

addDocument == AddItem("addDocument", "documents")

removeDocument == RemoveItem("removeDocument", "documents")

addContact == AddItem("addContact", "contacts")

removeContact == RemoveItem("removeContact", "contacts")

addAddress == AddItem("addAddress", "addresses")

removeAddress == RemoveItem("removeAddress", "addresses")

addDependent == AddItem("addDependent", "dependents")

removeDependent == RemoveItem("removeDependent", "dependents")

addBenefit == AddItem("addBenefit", "benefits")

removeBenefit == RemoveItem("removeBenefit", "benefits")

\* the Employee under its collection operations, with updatePosition as the
\* operation that can throw
NextEmpItems ==
    \/ addDocument
    \/ removeDocument
    \/ addContact
    \/ removeContact
    \/ addAddress
    \/ removeAddress
    \/ addDependent
    \/ removeDependent
    \/ addBenefit
    \/ removeBenefit
    \/ updatePosition
    \/ TickEmp

SpecEmpItems == InitEmp /\ [][NextEmpItems]_vars

\* incrementVersion() called on an Employee: _version++, then this.touch(),
\* which on an AuditableAggregateRoot is touch(updatedBy) with updatedBy
\* left out
auditableIncrementVersion ==
    /\ emp.version < 1 + MaxIncrements
    /\ emp' = touchBy([emp EXCEPT !.version = VersionAfterIncrement(@)],
                      "undefined")
    /\ empLast' = [op |-> "incrementVersion", error |-> NoError,
                   actor |-> "undefined"]
    /\ UNCHANGED now
    /\ EmpOnly

\* addDomainEvent(event) called by a subclass of AuditableAggregateRoot:
\* push, then this.touch()
auditableAddDomainEvent ==
    /\ Len(emp.domainEvents) < MaxEvents
    /\ \E event \in EventRefs :
          emp' = touchBy([emp EXCEPT !.domainEvents = BufferWithEvent(@, event)],
                         "undefined")
    /\ empLast' = [op |-> "addDomainEvent", error |-> NoError,
                   actor |-> "undefined"]
    /\ UNCHANGED now
    /\ EmpOnly

\* the operations that touch an AuditableAggregateRoot, with and without
\* an actor
AuditedOperations ==
    {"addDocument", "removeDocument", "updateSalary", "incrementVersion",
     "addDomainEvent"}

NextAudit ==
    \/ addDocument
    \/ removeDocument
    \/ updateSalary
    \/ auditableIncrementVersion
    \/ auditableAddDomainEvent
    \/ TickEmp

SpecAudit == InitEmp /\ [][NextAudit]_vars

-----------------------------------------------------------------------------
(* Construction of an Employee and of the README's User, an Entity whose   *)
(* validate() reads its own name.  The Entity constructor runs first and   *)
(* calls this.validate(), which is the subclass's, on the object as it is   *)
(* at that moment; only after super(...) has returned does the subclass     *)
(* constructor assign its fields.  A string field not yet assigned is       *)
(* undefined, which `!s` treats like '': both are <<>> here.                *)

\* the arguments new Employee(...) is called with; those not listed are the
\* ones of InitEmp
EmployeeArguments ==
    [firstName : {StrAna, <<65>>, <<>>}, lastName : {StrAna, <<>>},
     birthDate : {0 - 20, 0 - 10, 1}, position : {StrDev, <<>>},
     hireDate : {0 - 1, 2}]

\* the object while the constructors of Entity, AggregateRoot and
\* AuditableAggregateRoot run: timestamps set, Employee's fields unassigned
\* (validate() throws at the first name and reads no further)
BeforeAssignment ==
    [firstName |-> <<>>, lastName |-> <<>>,
     maritalStatus |-> "undefined", nationality |-> <<>>,
     placeOfBirth |-> <<>>, birthDate |-> 0,
     employeeId |-> <<>>, position |-> <<>>, department |-> <<>>,
     hireDate |-> 0, workSchedule |-> <<>>, workLocation |-> <<>>,
     salary |-> 0, status |-> "undefined", terminationDate |-> <<>>,
     probationEndDate |-> <<>>, version |-> 1,
     createdAt |-> now, updatedAt |-> now, createdBy |-> "undefined",
     updatedBy |-> "undefined", items |-> NoItems,
     domainEvents |-> <<>>]

\* the assignments of the Employee constructor after super(...)
Assigned(e, args) ==
    [e EXCEPT !.firstName = args.firstName, !.lastName = args.lastName,
              !.maritalStatus = "single", !.nationality = StrJoao,
              !.placeOfBirth = StrJoao, !.birthDate = args.birthDate,
              !.employeeId = <<49>>, !.position = args.position,
              !.department = StrOps, !.hireDate = args.hireDate,
              !.workSchedule = <<57>>, !.workLocation = StrOps,
              !.salary = 1000, !.status = "active"]

\* new Employee(...): super(...) with its this.validate(), the assignments,
\* this.validate(); the error thrown, if any, and the object otherwise
NewEmployee(args) ==
    IF validate(BeforeAssignment) # NoError
    THEN [error |-> validate(BeforeAssignment), object |-> [status |-> "none"]]
    ELSE IF validate(Assigned(BeforeAssignment, args)) # NoError
    THEN [error |-> validate(Assigned(BeforeAssignment, args)),
          object |-> [status |-> "none"]]
    ELSE [error |-> NoError, object |-> Assigned(BeforeAssignment, args)]

\* User.validate(): !this.name || this.name.trim().length === 0
validateUser(name) == IF TooShort(name, 1) THEN "ValidationError" ELSE NoError

\* new User(id, name, email): super(...) with its this.validate() while name
\* is unassigned, the assignment of name, this.validate()
NewUser(name) ==
    IF validateUser(<<>>) # NoError THEN validateUser(<<>>) ELSE validateUser(name)

InitConstruction ==
    /\ now = 0
    /\ emp = [status |-> "none"]
    /\ empLast = [op |-> "none", error |-> NoError]
    /\ VOIdle
    /\ AggIdle
    /\ SDIdle
    /\ BusIdle
    /\ DepIdle
    /\ EntIdle
    /\ ResIdle
    /\ BuilderIdle
    /\ SingletonIdle

\* new Employee(id, firstName, lastName, birthDate, ...)
newEmployee ==
    /\ \E args \in EmployeeArguments :
          /\ emp' = NewEmployee(args).object
          /\ empLast' = [op |-> "newEmployee", error |-> NewEmployee(args).error,
                         valid |-> validate(Assigned(BeforeAssignment, args)) = NoError,
                         args |-> args]
    /\ UNCHANGED now
    /\ EmpOnly

\* new User(id, name, email)
newUser ==
    /\ \E name \in {StrAna, <<65>>, <<32, 32>>, <<>>} :
          /\ empLast' = [op |-> "newUser", error |-> NewUser(name),
                         valid |-> validateUser(name) = NoError,
                         args |-> [firstName |-> name, lastName |-> <<>>,
                                   birthDate |-> 0, position |-> <<>>,
                                   hireDate |-> 0]]
    /\ UNCHANGED <<now, emp>>
    /\ EmpOnly

NextConstruction ==
    \/ newEmployee
    \/ newUser
    \/ TickEmp

SpecConstruction == InitConstruction /\ [][NextConstruction]_vars

-----------------------------------------------------------------------------
(* DomainEventBus.  `handlers` is the Map from event type name to the      *)
(* array of handlers; a type never subscribed to has no entry.  A   *)
(* publish(event) call holds the array it read from the Map and iterates   *)
(* over it with for...of, whose iterator reads the array's current length  *)
(* and element at every step.                                              *)

MaxCalls == 4   \* calls made on the bus per run, the publishes of publishAll included

EventTypes == {"T1", "T2"}

\* The handlers at hand and what their handle(event) does: return a promise
\* that resolves, throw before returning a promise, or return a promise that
\* rejects.  A returned promise settles in a later turn, or never: nothing
\* obliges it to settle.
HandlerRefs == {"hOk", "hThrow", "hReject"}

Behaviour(h) ==
    CASE h = "hOk" -> "resolve"
      [] h = "hThrow" -> "throw"
      [] OTHER -> "reject"

\* batches publishAll is called with
Batches == {<<>>} \cup {<<t>> : t \in EventTypes}
             \cup {<<t, u>> : t \in EventTypes, u \in EventTypes}

InitBus ==
    /\ now = 0
    /\ handlers = <<>>
    /\ publishes = <<>>
    /\ batch = NoBatch
    /\ calls = 0
    /\ VOIdle
    /\ AggIdle
    /\ SDIdle
    /\ EmpIdle
    /\ DepIdle
    /\ EntIdle
    /\ ResIdle
    /\ BuilderIdle
    /\ SingletonIdle

\* this.handlers.get(eventTypeName) || []
HandlersFor(type) == IF type \in DOMAIN handlers THEN handlers[type] ELSE <<>>

\* the array a publish iterates over: the Map's array while that array is
\* still the Map's, its own contents once detached
ArrayOf(p) == IF p.live THEN HandlersFor(p.type) ELSE p.list

\* the catch block rethrowing instead of logging
AfterHandlerErrorRethrown(p) == [p EXCEPT !.state = "rejected", !.awaiting = "none"]

\* catch (error) { console.error(...) }: the error is logged and the loop goes on
AfterHandlerError(p) == [p EXCEPT !.logged = @ + 1, !.awaiting = "none"]

\* handler.handle(event) called without await
NotAwaited(p, h) == p

\* an await after which the loop takes the same array position again
AwaitedForRetry(p, h) == [p EXCEPT !.awaiting = h, !.index = @ - 1]

\* await handler.handle(event): the loop is suspended on the handler's promise
Awaited(p, h) == [p EXCEPT !.awaiting = h]

RECURSIVE RunLoop(_)
\* The for...of loop of publish from the iterator's position on, up to the
\* next suspension or the end of the array.  A handler that throws before
\* returning a promise is caught at once and the loop goes on in the same
\* turn.
RunLoop(p) ==
    IF p.state # "running" THEN p
    ELSE IF p.index >= Len(ArrayOf(p))
    THEN [p EXCEPT !.state = "resolved", !.live = FALSE, !.list = ArrayOf(p),
                   !.final = HandlersFor(p.type)]
    ELSE LET h == ArrayOf(p)[p.index + 1]
             q == [p EXCEPT !.index = @ + 1, !.invoked = Append(@, h)]
         IN  IF Behaviour(h) = "throw"
             THEN RunLoop(AfterHandlerError([q EXCEPT !.completed = @ + 1]))
             ELSE LET r == Awaited(q, h)
                  IN  IF r.awaiting = "none" THEN RunLoop(r) ELSE r

\* publish(event) up to its first suspension; start and final note the
\* handlers subscribed for the type when the publish started and resolved
StartPublish(type) ==
    RunLoop([type |-> type,
             live |-> type \in DOMAIN handlers,
             start |-> HandlersFor(type),
             final |-> <<>>,
             list |-> <<>>,
             index |-> 0,
             awaiting |-> "none",
             invoked |-> <<>>,
             completed |-> 0,
             logged |-> 0,
             state |-> "running",
             disturbed |-> FALSE])

\* publish(event)
publish ==
    /\ calls < MaxCalls
    /\ calls' = calls + 1
    /\ \E type \in EventTypes :
          publishes' = Append(publishes, StartPublish(type))
    /\ UNCHANGED <<handlers, batch>>
    /\ BusOnly

\* a publishAll that awaits each publish before starting the next
EventsStartedOneByOne(events) == IF events = <<>> THEN <<>> ELSE <<events[1]>>

\* events.map((event) => this.publish(event)): every publish is started
EventsStarted(events) == events

\* publishAll(events): start the publishes, then await Promise.all
publishAll ==
    /\ batch.state = "none"
    /\ \E events \in Batches :
          LET started == EventsStarted(events)
          IN  /\ calls + Len(events) <= MaxCalls
              /\ calls' = calls + Len(events)
              /\ publishes' = publishes \o
                     [i \in 1..Len(started) |-> StartPublish(started[i])]
              /\ batch' = [state |-> "pending", events |-> events,
                           pubs |-> [i \in 1..Len(started) |-> Len(publishes) + i]]
    /\ UNCHANGED handlers
    /\ BusOnly

\* the promise of handle(event) that a publish awaits settles, and the loop
\* goes on to its next suspension or its end
handlerSettles ==
    /\ \E i \in 1..Len(publishes) :
          LET p == publishes[i]
              done == [p EXCEPT !.completed = @ + 1, !.awaiting = "none"]
          IN  /\ p.state = "running"
              /\ p.awaiting # "none"
              /\ publishes' = [publishes EXCEPT ![i] =
                     IF Behaviour(p.awaiting) = "reject"
                     THEN RunLoop(AfterHandlerError(done))
                     ELSE RunLoop(done)]
    /\ UNCHANGED <<handlers, batch, calls>>
    /\ BusOnly

\* Promise.all(promises) settles: it rejects as soon as one publish has
\* rejected and resolves once all have resolved
batchSettles ==
    /\ batch.state = "pending"
    /\ \/ /\ \E i \in 1..Len(batch.pubs) : publishes[batch.pubs[i]].state = "rejected"
          /\ batch' = [batch EXCEPT !.state = "rejected"]
       \/ /\ Len(batch.pubs) = Len(batch.events)
          /\ \A i \in 1..Len(batch.pubs) : publishes[batch.pubs[i]].state = "resolved"
          /\ batch' = [batch EXCEPT !.state = "resolved"]
    /\ UNCHANGED <<handlers, publishes, calls>>
    /\ BusOnly

\* the publishes whose array is the Map's array of this type are iterating
\* over an array that has just been changed
Disturb(type) ==
    [i \in 1..Len(publishes) |->
        IF publishes[i].state = "running" /\ publishes[i].live
           /\ publishes[i].type = type
        THEN [publishes[i] EXCEPT !.disturbed = TRUE]
        ELSE publishes[i]]

\* subscribe(eventType, handler)
subscribe ==
    /\ calls < MaxCalls
    /\ calls' = calls + 1
    /\ \E type \in EventTypes, handler \in HandlerRefs :
          /\ handlers' = [t \in DOMAIN handlers \cup {type} |->
                            IF t = type THEN Append(HandlersFor(type), handler)
                            ELSE handlers[t]]
          /\ publishes' = Disturb(type)
    /\ UNCHANGED batch
    /\ BusOnly

\* unsubscribe(eventType, handler)
unsubscribe ==
    /\ calls < MaxCalls
    /\ calls' = calls + 1
    /\ \E type \in EventTypes, handler \in HandlerRefs :
          LET index == IndexOf(HandlersFor(type), handler)
          IN  IF index > 0
              THEN /\ handlers' = [handlers EXCEPT ![type] = SpliceOne(@, index)]
                   /\ publishes' = Disturb(type)
              ELSE UNCHANGED <<handlers, publishes>>
    /\ UNCHANGED batch
    /\ BusOnly

\* clear(): this.handlers.clear(); the arrays that running publishes hold
\* are no longer the Map's
clear ==
    /\ calls < MaxCalls
    /\ calls' = calls + 1
    /\ handlers' = <<>>
    /\ publishes' = [i \in 1..Len(publishes) |->
                       IF publishes[i].live
                       THEN [publishes[i] EXCEPT !.live = FALSE,
                                                 !.list = ArrayOf(publishes[i])]
                       ELSE publishes[i]]
    /\ UNCHANGED batch
    /\ BusOnly

\* getHandlerCount(eventType)
getHandlerCount(type) == Len(HandlersFor(type))

\* getRegisteredEventTypes()
getRegisteredEventTypes == DOMAIN handlers

NextBus ==
    \/ publish
    \/ publishAll
    \/ handlerSettles
    \/ batchSettles
    \/ subscribe
    \/ unsubscribe
    \/ clear

SpecBus == InitBus /\ [][NextBus]_vars

-----------------------------------------------------------------------------
(* Value objects under comparison.  A value object is its concrete class   *)
(* and the list getPrimitiveValues() returns.                              *)

\* 'male', 'female', 'child', 'active' (enums.ts) and two names
StrMale == <<109, 97, 108, 101>>
StrFemale == <<102, 101, 109, 97, 108, 101>>
StrChild == <<99, 104, 105, 108, 100>>
StrActive == <<97, 99, 116, 105, 118, 101>>
StrMaria == <<77, 97, 114, 105, 97>>
KeyA == <<97>>
KeyB == <<98>>
Key0 == <<48>>

\* new Dependent(name, birthDate, gender, type): status, isEmergencyContact
\* take their defaults, cpf, rg, phone and email stay undefined;
\* getPrimitiveValues() lists the ten fields.
Dependent(name, birthDate, gender, type) ==
    [cls |-> "Dependent",
     values |-> <<JsStr(name), JsDate(birthDate), JsStr(gender), JsStr(type),
                  JsUndef, JsUndef, JsStr(StrActive), JsBool(FALSE),
                  JsUndef, JsUndef>>]

\* The birth dates drawn: days of January 2010 (a child of 16 today)
BirthDays == {1, 2}

DependentInstances ==
    {Dependent(nm, bd, g, StrChild) :
        nm \in {StrJoao, StrMaria}, bd \in BirthDays, g \in {StrMale, StrFemale}}

ObjAB == JsObj(<<KeyA, KeyB>>, <<JsNum(2), JsNum(4)>>)
ObjBA == JsObj(<<KeyB, KeyA>>, <<JsNum(4), JsNum(2)>>)

\* Component values a subclass of PrimitiveValueObject may list
ValuePool ==
    {JsUndef, JsNull, JsBool(TRUE), JsBool(FALSE), JsNum(0), JsNum(2), JsNum(3),
     JsStr(KeyA), JsStr(KeyB), JsDate(1), JsDate(2),
     JsArr(<<>>), JsArr(<<JsNum(2)>>), JsArr(<<JsNum(2), JsStr(KeyA)>>),
     JsArr(<<JsUndef>>), JsArr(<<JsArr(<<JsNum(2)>>)>>), JsArr(<<ObjAB>>),
     JsArr(<<ObjBA>>),
     ObjAB, ObjBA, JsObj(<<KeyA>>, <<JsNum(2)>>), JsObj(<<KeyA>>, <<JsUndef>>),
     JsObj(<<KeyB>>, <<JsUndef>>), JsObj(<<Key0>>, <<JsNum(2)>>),
     JsObj(<<KeyA>>, <<ObjAB>>), JsObj(<<KeyA>>, <<ObjBA>>),
     JsObj(<<KeyA>>, <<JsDate(1)>>), JsObj(<<KeyA>>, <<JsDate(2)>>)}

\* Instances of a subclass that lists a single component
GenericInstances == {[cls |-> "Generic", values |-> <<v>>] : v \in ValuePool}

ValueObjects == DependentInstances \cup GenericInstances

InitVO ==
    /\ voA \in ValueObjects
    /\ voB \in ValueObjects
    /\ voOut = NoOutcome
    /\ now = 0
    /\ AggIdle
    /\ SDIdle
    /\ EmpIdle
    /\ BusIdle
    /\ DepIdle
    /\ EntIdle
    /\ ResIdle
    /\ BuilderIdle
    /\ SingletonIdle

\* a.equals(b), b.equals(a), a.hashCode() and b.hashCode()
Compare ==
    /\ ~voOut.done
    /\ voOut' = [done |-> TRUE,
                 eq |-> equals(voA, voB),
                 eqBack |-> equals(voB, voA),
                 hashA |-> hashCode(voA),
                 hashB |-> hashCode(voB)]
    /\ UNCHANGED <<voA, voB>>
    /\ VOOnly

NextVO == Compare

SpecVO == InitVO /\ [][NextVO]_vars

-----------------------------------------------------------------------------
(* A Dependent and the Date objects around it.  `dates` is the heap of     *)
(* Date objects: a Date is its index, its time value <<>> for an Invalid   *)
(* Date or <<y>> for a year counted from today's.  The caller holds every  *)
(* Date it created or was handed.                                          *)

MaxDates == 2   \* Date objects alive at once

BirthYears == {0 - 130, 0 - 30, 0 - 10, 1}

TimeValues == {<<>>} \cup {<<y>> : y \in BirthYears}

DependentTypes == {"spouse", "child", "parent"}

DependentNames == {StrMaria, <<32, 65, 32>>}

MinNameLength == 2
MaxNameLength == 100
MaxAge == 120
MinSpouseAge == 16
MaxChildAge == 24

\* get age(): today's year minus the year of _birthDate
age(d) == now - dates[d.birthDate][1]

\* Dependent.validate(): the error it throws, if any
validateDependent(d) ==
    LET birthDate == dates[d.birthDate]
    IN  IF \/ Len(d.name) < MinNameLength
           \/ Len(d.name) > MaxNameLength
           \/ birthDate = <<>>
           \/ birthDate[1] > now
           \/ birthDate[1] < now - MaxAge
           \/ d.type = "spouse" /\ age(d) < MinSpouseAge
           \/ d.type = "child" /\ age(d) > MaxChildAge
        THEN "ValidationError" ELSE NoError

InitDep ==
    /\ now = 0
    /\ dates = <<>>
    /\ dep = NoDependent
    /\ depLast = [op |-> "none", error |-> NoError]
    /\ VOIdle
    /\ AggIdle
    /\ SDIdle
    /\ EmpIdle
    /\ BusIdle
    /\ EntIdle
    /\ ResIdle
    /\ BuilderIdle
    /\ SingletonIdle

\* the caller's new Date(value)
newDate ==
    /\ Len(dates) < MaxDates
    /\ \E value \in TimeValues : dates' = Append(dates, value)
    /\ depLast' = [op |-> "newDate", error |-> NoError]
    /\ UNCHANGED <<now, dep>>
    /\ DepOnly

\* the caller's date.setTime(value) / setFullYear(year) on a Date it holds
setTime ==
    /\ \E date \in 1..Len(dates), value \in TimeValues :
          dates' = [dates EXCEPT ![date] = value]
    /\ depLast' = [op |-> "setTime", error |-> NoError]
    /\ UNCHANGED <<now, dep>>
    /\ DepOnly

\* new Dependent(name, birthDate, gender, type): the name is trimmed, the
\* Date is stored as given, validate() runs last; when it throws no instance
\* is returned.  `built` remembers the birth date the instance was built with.
newDependent ==
    /\ dep.state = "none"
    /\ \E name \in DependentNames, birthDate \in 1..Len(dates),
          type \in DependentTypes :
          LET d == [state |-> "live", name |-> Trim(name),
                    birthDate |-> birthDate, type |-> type,
                    built |-> dates[birthDate]]
              error == validateDependent(d)
          IN  /\ dep' = IF error = NoError THEN d ELSE dep
              /\ depLast' = [op |-> "new", error |-> error]
    /\ UNCHANGED <<now, dates>>
    /\ DepOnly

\* get birthDate(): return new Date(this._birthDate)
getBirthDate ==
    /\ dep.state = "live"
    /\ Len(dates) < MaxDates
    /\ dates' = Append(dates, dates[dep.birthDate])
    /\ depLast' = [op |-> "birthDate", error |-> NoError]
    /\ UNCHANGED <<now, dep>>
    /\ DepOnly

NextDep ==
    \/ newDate
    \/ setTime
    \/ newDependent
    \/ getBirthDate

SpecDep == InitDep /\ [][NextDep]_vars

\* C14: a value object is never observed in an invalid state: once a
\* Dependent is constructed nothing a caller does, mutating the Date it
\* passed to the constructor included, changes its birth date or makes its
\* validation rules fail.
C14_ValueObjectStaysValid ==
    dep.state = "live" =>
        /\ dates[dep.birthDate] = dep.built
        /\ validateDependent(dep) = NoError

\* C1: for two value objects of the same concrete type, a.equals(b) = true
\* implies a.hashCode() = b.hashCode(), also when a component is a Date, an
\* array or a nested plain object.
C1_EqualsImpliesSameHash ==
    (voOut.done /\ voA.cls = voB.cls /\ voOut.eq) => voOut.hashA = voOut.hashB

RECURSIVE SameValue(_, _)
\* Two component values hold the same value: the same primitive, the same
\* instant, arrays of the same values in the same order, objects with the
\* same keys bound to the same values.
SameValue(a, b) ==
    /\ a.t = b.t
    /\ a.n = b.n
    /\ a.s = b.s
    /\ Len(a.kids) = Len(b.kids)
    /\ IF a.t = "obj"
       THEN /\ {a.keys[i] : i \in 1..Len(a.keys)} = {b.keys[i] : i \in 1..Len(b.keys)}
            /\ \A i \in 1..Len(a.keys) : SameValue(a.kids[i], GetProp(b, a.keys[i]))
       ELSE \A i \in 1..Len(a.kids) : SameValue(a.kids[i], b.kids[i])

\* the component lists of two value objects differ in at least one position
ComponentsDiffer(a, b) ==
    \/ Len(a.values) # Len(b.values)
    \/ \E i \in 1..Len(a.values) : ~SameValue(a.values[i], b.values[i])

\* C13: two value objects of the same concrete type whose component lists
\* differ in at least one position are not equal, also when the differing
\* component is a Date, an array or a nested plain object.
C13_DifferentComponentsNotEqual ==
    (voOut.done /\ voA.cls = voB.cls /\ ComponentsDiffer(voA, voB)) => ~voOut.eq

\* C28: equals is symmetric: for two value objects of the same concrete
\* class, a.equals(b) and b.equals(a) give the same answer, nested plain
\* objects with different key sets and an array set against a plain object
\* included.
C28_EqualsIsSymmetric ==
    (voOut.done /\ voA.cls = voB.cls) => voOut.eq = voOut.eqBack

-----------------------------------------------------------------------------
(* Entities and their identifiers.  An entity is its concrete class, its   *)
(* Id, its two timestamps and, as an attribute, a version; an Id is its    *)
(* concrete class and its value.                                           *)

StrOne == <<49>>

\* '123e4567-e89b-42d3-a456-426614174000'
StrUuid == <<49, 50, 51, 101, 52, 53, 54, 55, 45, 101, 56, 57, 98, 45,
             52, 50, 100, 51, 45, 97, 52, 53, 54, 45,
             52, 50, 54, 54, 49, 52, 49, 55, 52, 48, 48, 48>>

StringId(value) == [cls |-> "StringId", value |-> JsStr(value)]
NumberId(value) == [cls |-> "NumberId", value |-> JsNum(2 * value)]
UuidId(value) == [cls |-> "UuidId", value |-> JsStr(value)]

\* identifiers that pass their class's validate()
Ids == {StringId(StrOne), StringId(KeyA), StringId(StrUuid),
        NumberId(1), NumberId(2), UuidId(StrUuid)}

EntityClasses == {"Employee", "Department"}

Slots == {"a", "b"}

\* this.constructor !== other.constructor, negated, with the check left out
AnyConstructor(this, other) == TRUE

\* this.constructor === other.constructor
SameConstructor(this, other) == this.cls = other.cls

\* Id.equals(other)
IdEquals(this, other) ==
    /\ other.cls # "null"
    /\ SameConstructor(this, other)
    /\ StrictEquals(this.value, other.value)

\* Id.toString(): String(this._value)
IdToString(id) == IF id.value.t = "num" THEN NumberCodes(id.value.n) ELSE id.value.s

\* Id.hashCode(): the reduce over the characters of toString()
IdHashCode(id) == HashStringFrom(IdToString(id), 1, 0)

\* Entity.equals(other)
EntityEquals(this, other) ==
    /\ other.cls # "null"
    /\ SameConstructor(this, other)
    /\ IdEquals(this.id, other.id)

\* Entity.hashCode()
EntityHashCode(this) == IdHashCode(this.id)

\* Entity.isNew()
isNew(this) == this.createdAt = this.updatedAt

InitEnt ==
    /\ now = 0
    /\ ents = [a |-> NullEntity, b |-> NullEntity]
    /\ entOut = NoVerdict
    /\ VOIdle
    /\ AggIdle
    /\ SDIdle
    /\ EmpIdle
    /\ BusIdle
    /\ DepIdle
    /\ ResIdle
    /\ BuilderIdle
    /\ SingletonIdle

\* new Sub(id, createdAt?, updatedAt?): createdAt || new Date(), then
\* updatedAt || new Date().  Each new Date() reads the clock, which may have
\* advanced since the read before.  Each of the two references is bound once.
construct ==
    /\ \E slot \in Slots, cls \in EntityClasses, id \in Ids,
          createdAt \in {<<>>, <<0>>}, updatedAt \in {<<>>, <<0>>},
          ver \in {1, 2} :
          \E later \in (IF updatedAt = <<>> THEN now..MaxClock ELSE {now}) :
             LET first == IF createdAt = <<>> THEN now ELSE createdAt[1]
                 second == IF updatedAt = <<>> THEN later ELSE updatedAt[1]
             IN  /\ ents[slot].cls = "null"
                 /\ ents' = [ents EXCEPT ![slot] =
                               [cls |-> cls, id |-> id, createdAt |-> first,
                                updatedAt |-> second, version |-> ver]]
                 /\ entOut' = [NoVerdict EXCEPT
                                  !.op = "new",
                                  !.defaults = (createdAt = <<>> /\ updatedAt = <<>>)]
                 /\ now' = later
    /\ EntOnly

\* touch(): this._updatedAt = new Date()
touchEntity ==
    /\ \E slot \in Slots :
          /\ ents[slot].cls # "null"
          /\ ents' = [ents EXCEPT ![slot].updatedAt = now]
    /\ entOut' = [NoVerdict EXCEPT !.op = "touch"]
    /\ UNCHANGED now
    /\ EntOnly

\* a.equals(b), a.hashCode() and, unless b is null, b.hashCode()
compareEntities ==
    /\ ents.a.cls # "null"
    /\ entOut' = [done |-> TRUE,
                  eq |-> EntityEquals(ents.a, ents.b),
                  hashA |-> EntityHashCode(ents.a),
                  hashB |-> IF ents.b.cls = "null" THEN 0
                            ELSE EntityHashCode(ents.b),
                  op |-> "equals", defaults |-> FALSE]
    /\ UNCHANGED <<now, ents>>
    /\ EntOnly

TickEnt == Tick /\ UNCHANGED entVars /\ EntOnly

NextEnt ==
    \/ construct
    \/ touchEntity
    \/ compareEntities
    \/ TickEnt

SpecEnt == InitEnt /\ [][NextEnt]_vars

\* C15: Entity.equals(other) is true exactly when other is not null, has the
\* same concrete class and an id of the same class and value, whatever the
\* timestamps and the version of the two; and two equal entities have the
\* same hashCode().
C15_EntityEqualsIsIdentity ==
    entOut.done =>
        /\ entOut.eq <=> /\ ents.b.cls # "null"
                         /\ ents.a.cls = ents.b.cls
                         /\ ents.a.id = ents.b.id
        /\ entOut.eq => entOut.hashA = entOut.hashB

\* two entities of one class and one id that differ in updatedAt and in
\* version have been found equal
C15_Witness ==
    /\ entOut.done
    /\ entOut.eq
    /\ ents.a.updatedAt # ents.b.updatedAt
    /\ ents.a.version # ents.b.version

\* C16: an entity constructed without explicit createdAt and updatedAt is in
\* the `new` state when the constructor returns (createdAt equals updatedAt,
\* isNew() is true), however the clock advances while the constructor runs.
C16_ConstructedEntityIsNew ==
    [][(entOut'.op = "new" /\ entOut'.defaults)
          => \A slot \in Slots :
                ents'[slot] # ents[slot] => isNew(ents'[slot])]_vars

-----------------------------------------------------------------------------
(* Result, Either and Maybe (types).  Payloads are JavaScript values; an   *)
(* Error is a value of kind "error" whose s is its message.  What a call   *)
(* gives back is an outcome: the value it returned or the value it threw,  *)
(* together with the number of times it called the function it was given.  *)

JsError(message) == [t |-> "error", n |-> 0, s |-> message, kids |-> <<>>, keys |-> <<>>]

\* the messages of the errors callers put in failures: 'E1', 'E2'
MsgE1 == <<69, 49>>
MsgE2 == <<69, 50>>
\* the message of an error a caller's function throws: 'T'
MsgT == <<84>>
\* the messages of the errors the getters throw, shortened to initials:
\* 'Cannot get value from failed result' ... 'Cannot get value from None'
MsgNoValue == <<67, 118>>
MsgNoError == <<67, 101>>
MsgNoLeft == <<67, 108>>
MsgNoRight == <<67, 114>>
MsgNone == <<67, 110>>
MsgSomeNull == <<77, 115>>

\* new Result(isSuccess, value, error): the fields not given stay undefined
Success(value) == [tag |-> "Result", flag |-> TRUE, first |-> value, second |-> JsUndef]
Failure(error) == [tag |-> "Result", flag |-> FALSE, first |-> JsUndef, second |-> error]

\* new Either(isLeft, left, right)
Left(value) == [tag |-> "Either", flag |-> TRUE, first |-> value, second |-> JsUndef]
Right(value) == [tag |-> "Either", flag |-> FALSE, first |-> JsUndef, second |-> value]

\* new Maybe(value): none holds undefined
MaybeOf(value) == [tag |-> "Maybe", flag |-> value # JsUndef, first |-> value,
                   second |-> JsUndef]

NoContainer == [tag |-> "none", flag |-> FALSE, first |-> JsUndef, second |-> JsUndef]

Returned(value, n) ==
    [threw |-> FALSE, value |-> value, box |-> NoContainer, calls |-> n]
ReturnedBox(box, n) ==
    [threw |-> FALSE, value |-> JsUndef, box |-> box, calls |-> n]
Threw(error, n) ==
    [threw |-> TRUE, value |-> error, box |-> NoContainer, calls |-> n]

NotCalled == [threw |-> FALSE, value |-> JsUndef, box |-> NoContainer, calls |-> 0]

\* Result: isSuccess, isFailure, value, error
isSuccess(r) == r.flag
isFailure(r) == ~r.flag
\* Result.value returning the field whatever the state
ResultValueUnguarded(r) == Returned(r.first, 0)

\* get value(): throws on a failure
ResultValue(r) ==
    IF ~r.flag THEN Threw(JsError(MsgNoValue), 0) ELSE Returned(r.first, 0)
ResultError(r) ==
    IF r.flag THEN Threw(JsError(MsgNoError), 0) ELSE Returned(r.second, 0)

\* Either: isLeft, isRight, left, right
isLeft(e) == e.flag
isRight(e) == ~e.flag
EitherLeft(e) ==
    IF ~e.flag THEN Threw(JsError(MsgNoLeft), 0) ELSE Returned(e.first, 0)
EitherRight(e) ==
    IF e.flag THEN Threw(JsError(MsgNoRight), 0) ELSE Returned(e.second, 0)

\* Maybe: some, none, isSome, isNone, value
MaybeSome(value) ==
    IF value = JsNull \/ value = JsUndef
    THEN Threw(JsError(MsgSomeNull), 0)
    ELSE ReturnedBox(MaybeOf(value), 0)
MaybeNone == MaybeOf(JsUndef)
isSome(m) == m.first # JsUndef
isNone(m) == m.first = JsUndef
MaybeValue(m) ==
    IF isNone(m) THEN Threw(JsError(MsgNone), 0) ELSE Returned(m.first, 0)

\* The functions callers pass to map: x => typeof x === 'number' ? 2 * x : x,
\* () => null, () => undefined, and one that throws new Error('T')
Mappers == {"twice", "toNull", "toUndefined", "throws"}

Twice(x) == IF x.t = "num" THEN JsNum(2 * x.n) ELSE x

\* fn(x): what the call gives back, counted as one call
Apply(fn, x) ==
    CASE fn = "twice" -> Returned(Twice(x), 1)
      [] fn = "toNull" -> Returned(JsNull, 1)
      [] fn = "toUndefined" -> Returned(JsUndef, 1)
      [] OTHER -> Threw(JsError(MsgT), 1)

\* Result.map with the try/catch left out: what fn throws escapes
ResultMapUncaught(r, fn) ==
    IF isFailure(r) THEN ReturnedBox(Failure(ResultError(r).value), 0)
    ELSE IF Apply(fn, ResultValue(r).value).threw
    THEN Apply(fn, ResultValue(r).value)
    ELSE ReturnedBox(Success(Apply(fn, ResultValue(r).value).value), 1)

\* Result.map(fn)
ResultMap(r, fn) ==
    IF isFailure(r) THEN ReturnedBox(Failure(ResultError(r).value), 0)
    ELSE IF Apply(fn, ResultValue(r).value).threw
    THEN ReturnedBox(Failure(Apply(fn, ResultValue(r).value).value), 1)
    ELSE ReturnedBox(Success(Apply(fn, ResultValue(r).value).value), 1)

\* Either.map(fn)
EitherMap(e, fn) ==
    IF isLeft(e) THEN ReturnedBox(Left(EitherLeft(e).value), 0)
    ELSE IF Apply(fn, EitherRight(e).value).threw
    THEN ReturnedBox(Left(Apply(fn, EitherRight(e).value).value), 1)
    ELSE ReturnedBox(Right(Apply(fn, EitherRight(e).value).value), 1)

\* Maybe.fromNullable(value)
MaybeFromNullable(value) ==
    IF value = JsNull \/ value = JsUndef
    THEN ReturnedBox(MaybeNone, 0)
    ELSE MaybeSome(value)

\* Maybe.map with the try/catch left out: what fn or Maybe.some throws escapes
MaybeMapUncaught(m, fn) ==
    IF isNone(m) THEN ReturnedBox(MaybeNone, 0)
    ELSE LET applied == Apply(fn, MaybeValue(m).value)
         IN  IF applied.threw THEN applied
             ELSE [MaybeSome(applied.value) EXCEPT !.calls = 1]

\* Maybe.map(fn): try { return Maybe.some(fn(this.value)) } catch { none }
MaybeMap(m, fn) ==
    IF isNone(m) THEN ReturnedBox(MaybeNone, 0)
    ELSE LET applied == Apply(fn, MaybeValue(m).value)
         IN  IF applied.threw \/ MaybeSome(applied.value).threw
             THEN ReturnedBox(MaybeNone, 1)
             ELSE ReturnedBox(MaybeSome(applied.value).box, 1)

\* Result.getOrElse(defaultValue)
getOrElse(r, defaultValue) ==
    IF isSuccess(r) THEN ResultValue(r).value ELSE defaultValue

\* The Result-returning functions callers pass to flatMap: Result.success,
\* x => Result.success(twice(x)), () => Result.failure(new Error('E1')),
\* x => x === null ? Result.failure(new Error('E2')) : Result.success(x),
\* and one that throws new Error('T').  A sequence <<f, g>> of them is the
\* function x => f(x).flatMap(g).
Binders == {"success", "successTwice", "failure", "failureOnNull", "throws"}

ApplyBinder(fn, x) ==
    CASE fn = "success" -> ReturnedBox(Success(x), 1)
      [] fn = "successTwice" -> ReturnedBox(Success(Twice(x)), 1)
      [] fn = "failure" -> ReturnedBox(Failure(JsError(MsgE1)), 1)
      [] fn = "failureOnNull" ->
            ReturnedBox(IF x = JsNull THEN Failure(JsError(MsgE2)) ELSE Success(x), 1)
      [] OTHER -> Threw(JsError(MsgT), 1)

\* the outcome of a call made after the calls counted in `before`
After(before, outcome) == [outcome EXCEPT !.calls = @ + before]

RECURSIVE ResultFlatMap(_, _)
\* flatMap that calls fn on a failure too, with undefined
ResultFlatMapAlways(r, fns) ==
    LET first == ApplyBinder(fns[1], r.first)
    IN  IF Len(fns) = 1 \/ first.threw THEN first
        ELSE After(first.calls, ResultFlatMap(first.box, Tail(fns)))

\* Result.flatMap(fn), fn being fns[1] or x => fns[1](x).flatMap(rest)
ResultFlatMap(r, fns) ==
    IF isFailure(r) THEN ReturnedBox(Failure(ResultError(r).value), 0)
    ELSE LET first == ApplyBinder(fns[1], ResultValue(r).value)
         IN  IF Len(fns) = 1 \/ first.threw THEN first
             ELSE After(first.calls, ResultFlatMap(first.box, Tail(fns)))

\* outcome.flatMap(fn): the call is not reached when the receiver expression threw
ThenFlatMap(outcome, fns) ==
    IF outcome.threw THEN outcome
    ELSE After(outcome.calls, ResultFlatMap(outcome.box, fns))

\* the separator of join(', ')
Comma == <<44, 32>>

RECURSIVE Join(_)
\* messages.join(', ')
Join(messages) ==
    IF messages = <<>> THEN <<>>
    ELSE IF Len(messages) = 1 THEN messages[1]
    ELSE messages[1] \o Comma \o Join(Tail(messages))

RECURSIVE FirstErrorOf(_)
\* a loop that stops at the first failure
FirstErrorOf(results) ==
    IF results = <<>> THEN <<>>
    ELSE IF isFailure(results[1]) THEN <<ResultError(results[1]).value>>
    ELSE FirstErrorOf(Tail(results))

RECURSIVE ErrorsOf(_)
\* for (const result of results) if (result.isFailure) errors.push(result.error)
ErrorsOf(results) ==
    IF results = <<>> THEN <<>>
    ELSE (IF isFailure(results[1]) THEN <<ResultError(results[1]).value>> ELSE <<>>)
         \o ErrorsOf(Tail(results))

\* Result.combine(results)
combine(results) ==
    LET errors == ErrorsOf(results)
    IN  IF Len(errors) > 0
        THEN Failure(JsError(Join([i \in 1..Len(errors) |-> errors[i].s])))
        ELSE Success(JsArr([i \in 1..Len(results) |-> ResultValue(results[i]).value]))

MaxList == 3   \* Results handed to combine

\* values put in a success, a left or a right, and errors put in a failure
Payloads == {JsUndef, JsNull, JsNum(2), JsNum(4)}
Errors == {JsError(MsgE1), JsError(MsgE2)}

\* how a container is made and from what: Result.success(arg), ...
Makers ==
    {<<"success", v>> : v \in Payloads}
    \cup {<<"failure", e>> : e \in Errors \cup {JsUndef, JsNull}}
    \cup {<<"left", v>> : v \in Payloads \cup {JsError(MsgE1)}}
    \cup {<<"right", v>> : v \in Payloads}
    \cup {<<"some", v>> : v \in {JsNum(0), JsNum(2), JsStr(<<>>), JsBool(FALSE)}}
    \cup {<<"none", JsUndef>>}

Make(how, arg) ==
    CASE how = "success" -> Success(arg)
      [] how = "failure" -> Failure(arg)
      [] how = "left" -> Left(arg)
      [] how = "right" -> Right(arg)
      [] how = "some" -> MaybeSome(arg).box
      [] OTHER -> MaybeNone

\* the Results handed to combine: their errors are Errors, as its signature asks
ListElements == {Success(JsNum(2)), Success(JsUndef),
                 Failure(JsError(MsgE1)), Failure(JsError(MsgE2))}

Lists == UNION {[1..n -> ListElements] : n \in 0..MaxList}

Input(op, maker, fn, fns, gns, list) ==
    [op |-> op, how |-> maker[1], arg |-> maker[2], box |-> Make(maker[1], maker[2]),
     fn |-> fn, fns |-> fns, gns |-> gns, list |-> list, dflt |-> JsNum(6)]

\* the values handed to Maybe.some and Maybe.fromNullable
MaybeArguments ==
    {JsUndef, JsNull, JsNum(0), JsNum(2), JsBool(FALSE), JsStr(<<>>)}

ResultMakers == {mk \in Makers : mk[1] \in {"success", "failure"}}
EitherMakers == {mk \in Makers : mk[1] \in {"left", "right"}}

Inputs ==
    {Input("read", mk, "twice", <<>>, <<>>, <<>>) : mk \in Makers}
    \cup {Input("map", mk, fn, <<>>, <<>>, <<>>) :
             mk \in ResultMakers \cup EitherMakers, fn \in Mappers}
    \cup {Input("flatMap", mk, "twice", <<f>>, <<g>>, <<>>) :
             mk \in ResultMakers, f \in Binders, g \in Binders}
    \cup {Input("maybe", <<"raw", v>>, fn, <<>>, <<>>, <<>>) :
             v \in MaybeArguments, fn \in Mappers}
    \cup {Input("combine", <<"none", JsUndef>>, "twice", <<>>, <<>>, list) :
             list \in Lists}

Output(op, a, b, c) == [op |-> op, a |-> a, b |-> b, c |-> c]

InitRes ==
    /\ now = 0
    /\ resIn \in Inputs
    /\ resOut = Output("none", NotCalled, NotCalled, NotCalled)
    /\ VOIdle
    /\ AggIdle
    /\ SDIdle
    /\ EmpIdle
    /\ BusIdle
    /\ DepIdle
    /\ EntIdle
    /\ BuilderIdle
    /\ SingletonIdle

\* the two payload getters of the container: value and error, left and
\* right, or value alone
readPayloads ==
    /\ resIn.op = "read"
    /\ resOut.op = "none"
    /\ resOut' = CASE resIn.box.tag = "Result" ->
                        Output("read", ResultValue(resIn.box), ResultError(resIn.box),
                               NotCalled)
                   [] resIn.box.tag = "Either" ->
                        Output("read", EitherLeft(resIn.box), EitherRight(resIn.box),
                               NotCalled)
                   [] OTHER ->
                        Output("read", MaybeValue(resIn.box), NotCalled, NotCalled)
    /\ UNCHANGED resIn
    /\ ResOnly

\* box.map(fn) and, for a Result, box.map(fn).getOrElse(dflt)
map ==
    /\ resIn.op = "map"
    /\ resOut.op = "none"
    /\ resOut' = IF resIn.box.tag = "Result"
                 THEN LET mapped == ResultMap(resIn.box, resIn.fn)
                      IN  Output("map", mapped,
                                 Returned(getOrElse(mapped.box, resIn.dflt), 0),
                                 NotCalled)
                 ELSE Output("map", EitherMap(resIn.box, resIn.fn), NotCalled,
                             NotCalled)
    /\ UNCHANGED resIn
    /\ ResOnly

\* r.flatMap(f).flatMap(g), r.flatMap(x => f(x).flatMap(g)) and
\* r.flatMap(Result.success)
flatMap ==
    /\ resIn.op = "flatMap"
    /\ resOut.op = "none"
    /\ resOut' = Output("flatMap",
                        ThenFlatMap(ResultFlatMap(resIn.box, resIn.fns), resIn.gns),
                        ResultFlatMap(resIn.box, resIn.fns \o resIn.gns),
                        ResultFlatMap(resIn.box, <<"success">>))
    /\ UNCHANGED resIn
    /\ ResOnly

\* Maybe.some(arg), Maybe.fromNullable(arg) and Maybe.fromNullable(arg).map(fn)
maybe ==
    /\ resIn.op = "maybe"
    /\ resOut.op = "none"
    /\ resOut' = Output("maybe", MaybeSome(resIn.arg), MaybeFromNullable(resIn.arg),
                        MaybeMap(MaybeFromNullable(resIn.arg).box, resIn.fn))
    /\ UNCHANGED resIn
    /\ ResOnly

\* Result.combine(list)
combineResults ==
    /\ resIn.op = "combine"
    /\ resOut.op = "none"
    /\ resOut' = Output("combine", ReturnedBox(combine(resIn.list), 0), NotCalled,
                        NotCalled)
    /\ UNCHANGED resIn
    /\ ResOnly

NextRes ==
    \/ readPayloads
    \/ map
    \/ flatMap
    \/ maybe
    \/ combineResults

SpecRes == InitRes /\ [][NextRes]_vars

-----------------------------------------------------------------------------
(* Specifications and the SpecificationBuilder.  Every Specification made  *)
(* is an object of builder.objects, named by its position; a composite     *)
(* holds the positions of its operands.  Candidates have two numeric       *)
(* properties, x and y.                                                    *)

MaxSpecCalls == 4   \* calls made on the builder and on specifications

PropertyValues == 0..2
Candidates == [x : PropertyValues, y : PropertyValues]

\* new PropertySpecification(propertyName, operator, value)
PropertySpecification(propertyName, operator, value) ==
    [kind |-> "property", left |-> 0, right |-> 0, propertyName |-> propertyName,
     operator |-> operator, value |-> value]
\* new AndSpecification(left, right), new OrSpecification(left, right)
AndSpecification(left, right) ==
    [kind |-> "and", left |-> left, right |-> right, propertyName |-> "none",
     operator |-> "none", value |-> 0]
OrSpecification(left, right) ==
    [kind |-> "or", left |-> left, right |-> right, propertyName |-> "none",
     operator |-> "none", value |-> 0]
\* new NotSpecification(specification)
NotSpecification(specification) ==
    [kind |-> "not", left |-> specification, right |-> 0, propertyName |-> "none",
     operator |-> "none", value |-> 0]
TrueSpecification ==
    [kind |-> "true", left |-> 0, right |-> 0, propertyName |-> "none",
     operator |-> "none", value |-> 0]

\* the conditions callers hand to builder.property(...)
PropertyConditions ==
    {<<"x", "equals", 1>>, <<"x", "greaterThan", 0>>, <<"y", "lessThanOrEqual", 1>>,
     <<"y", "notEquals", 0>>}

\* PropertySpecification.isSatisfiedBy: the comparison operators on numbers
PropertySatisfied(spec, candidate) ==
    LET propertyValue == candidate[spec.propertyName]
    IN  CASE spec.operator = "equals" -> propertyValue = spec.value
          [] spec.operator = "notEquals" -> propertyValue # spec.value
          [] spec.operator = "greaterThan" -> propertyValue > spec.value
          [] spec.operator = "lessThan" -> propertyValue < spec.value
          [] spec.operator = "greaterThanOrEqual" -> propertyValue >= spec.value
          [] spec.operator = "lessThanOrEqual" -> propertyValue <= spec.value
          [] OTHER -> FALSE

RECURSIVE isSatisfiedBy(_, _, _)
\* isSatisfiedBy(candidate) of the object at position ref
isSatisfiedBy(objects, ref, candidate) ==
    LET spec == objects[ref]
    IN  CASE spec.kind = "property" -> PropertySatisfied(spec, candidate)
          [] spec.kind = "and" -> /\ isSatisfiedBy(objects, spec.left, candidate)
                                  /\ isSatisfiedBy(objects, spec.right, candidate)
          [] spec.kind = "or" -> \/ isSatisfiedBy(objects, spec.left, candidate)
                                 \/ isSatisfiedBy(objects, spec.right, candidate)
          [] spec.kind = "not" -> ~isSatisfiedBy(objects, spec.left, candidate)
          [] OTHER -> TRUE

\* acc.and(spec) / acc.or(spec): a new object holding both positions
Combine(kind, left, right) ==
    IF kind = "and" THEN AndSpecification(left, right)
    ELSE OrSpecification(left, right)

\* a reduce that stops after the first two specifications
ReduceFirstTwo(objects, acc, rest, kind) ==
    IF rest = <<>> THEN [objects |-> objects, result |-> acc]
    ELSE [objects |-> Append(objects, Combine(kind, acc, rest[1])),
          result |-> Len(objects) + 1]

RECURSIVE Reduce(_, _, _, _)
\* specifications.reduce((acc, spec) => acc.and(spec)), from acc over rest
Reduce(objects, acc, rest, kind) ==
    IF rest = <<>> THEN [objects |-> objects, result |-> acc]
    ELSE Reduce(Append(objects, Combine(kind, acc, rest[1])), Len(objects) + 1,
                Tail(rest), kind)

\* build() and buildOr(): the objects afterwards and the one returned
Build(b, kind) ==
    CASE Len(b.specifications) = 0 ->
            [objects |-> Append(b.objects, TrueSpecification),
             result |-> Len(b.objects) + 1]
      [] Len(b.specifications) = 1 ->
            [objects |-> b.objects, result |-> b.specifications[1]]
      [] OTHER ->
            Reduce(b.objects, b.specifications[1], Tail(b.specifications), kind)

SpecCall(op, this, other, result) ==
    [op |-> op, this |-> this, other |-> other, result |-> result,
     pre |-> builder.objects]

InitBuilder ==
    /\ now = 0
    /\ builder = [objects |-> <<>>, specifications |-> <<>>, last |-> NoSpecCall,
                  n |-> 0]
    /\ VOIdle
    /\ AggIdle
    /\ SDIdle
    /\ EmpIdle
    /\ BusIdle
    /\ DepIdle
    /\ EntIdle
    /\ ResIdle
    /\ SingletonIdle

\* builder.property(propertyName, operator, value)
property ==
    /\ builder.n < MaxSpecCalls
    /\ \E c \in PropertyConditions :
          builder' =
              [objects |-> Append(builder.objects,
                                  PropertySpecification(c[1], c[2], c[3])),
               specifications |-> Append(builder.specifications,
                                         Len(builder.objects) + 1),
               last |-> SpecCall("property", 0, 0, Len(builder.objects) + 1),
               n |-> builder.n + 1]
    /\ BuilderOnly

\* builder.build()
build ==
    /\ builder.n < MaxSpecCalls
    /\ LET built == Build(builder, "and")
       IN  builder' = [builder EXCEPT !.objects = built.objects,
                                      !.last = SpecCall("build", 0, 0, built.result),
                                      !.n = @ + 1]
    /\ BuilderOnly

\* builder.buildOr()
buildOr ==
    /\ builder.n < MaxSpecCalls
    /\ LET built == Build(builder, "or")
       IN  builder' = [builder EXCEPT !.objects = built.objects,
                                      !.last = SpecCall("buildOr", 0, 0, built.result),
                                      !.n = @ + 1]
    /\ BuilderOnly

\* this.and(other), this.or(other)
combineSpecifications ==
    /\ builder.n < MaxSpecCalls
    /\ \E kind \in {"and", "or"} :
       \E this \in 1..Len(builder.objects) :
       \E other \in 1..Len(builder.objects) :
          builder' = [builder EXCEPT
                         !.objects = Append(@, Combine(kind, this, other)),
                         !.last = SpecCall(kind, this, other,
                                           Len(builder.objects) + 1),
                         !.n = @ + 1]
    /\ BuilderOnly

\* this.not()
not ==
    /\ builder.n < MaxSpecCalls
    /\ \E this \in 1..Len(builder.objects) :
          builder' = [builder EXCEPT
                         !.objects = Append(@, NotSpecification(this)),
                         !.last = SpecCall("not", this, 0, Len(builder.objects) + 1),
                         !.n = @ + 1]
    /\ BuilderOnly

NextBuilder ==
    \/ property
    \/ build
    \/ buildOr
    \/ combineSpecifications
    \/ not

SpecBuilder == InitBuilder /\ [][NextBuilder]_vars

-----------------------------------------------------------------------------
(* DomainEventBusSingleton.  Every DomainEventBus made is an entry of      *)
(* singleton.buses, named by its position; instance is the position the    *)
(* static field holds, 0 while it is undefined.  A bus is its Map of        *)
(* handlers.  known is what getInstance() last returned since the field     *)
(* was last set by reset() or setInstance(), origin tells how the field     *)
(* was last set, since lists the subscriptions made through the singleton   *)
(* since then.                                                             *)

MaxSingletonCalls == 4   \* calls made on DomainEventBusSingleton and through it

\* new DomainEventBus(): new Map()
NewDomainEventBus == [type \in EventTypes |-> <<>>]

\* a reset() that keeps the bus it finds
SameBusOnReset(s) ==
    IF s.instance = 0
    THEN [buses |-> Append(s.buses, NewDomainEventBus), instance |-> Len(s.buses) + 1]
    ELSE [buses |-> s.buses, instance |-> s.instance]

\* reset(): DomainEventBusSingleton.instance = new DomainEventBus()
NewBusOnReset(s) ==
    [buses |-> Append(s.buses, NewDomainEventBus), instance |-> Len(s.buses) + 1]

\* getInstance(): if (!instance) instance = new DomainEventBus(); return instance
InstanceGot(s) ==
    IF s.instance = 0
    THEN [buses |-> Append(s.buses, NewDomainEventBus), instance |-> Len(s.buses) + 1]
    ELSE [buses |-> s.buses, instance |-> s.instance]

SingletonCall(op, result, delivered, type) ==
    [op |-> op, result |-> result, delivered |-> delivered, type |-> type,
     known |-> singleton.known, pre |-> singleton.buses]

InitSingleton ==
    /\ now = 0
    /\ singleton = [instance |-> 0, buses |-> <<>>, known |-> 0, origin |-> "none",
                    since |-> NewDomainEventBus,
                    last |-> NoSingletonCall, n |-> 0]
    /\ VOIdle
    /\ AggIdle
    /\ SDIdle
    /\ EmpIdle
    /\ BusIdle
    /\ DepIdle
    /\ EntIdle
    /\ ResIdle
    /\ BuilderIdle

\* DomainEventBusSingleton.getInstance()
getInstance ==
    /\ singleton.n < MaxSingletonCalls
    /\ LET got == InstanceGot(singleton)
       IN  singleton' = [singleton EXCEPT
               !.buses = got.buses,
               !.instance = got.instance,
               !.known = got.instance,
               !.origin = IF singleton.instance = 0 THEN "lazy" ELSE @,
               !.last = SingletonCall("getInstance", got.instance, <<>>, "none"),
               !.n = @ + 1]
    /\ SingletonOnly

\* DomainEventBusSingleton.reset()
reset ==
    /\ singleton.n < MaxSingletonCalls
    /\ LET made == NewBusOnReset(singleton)
       IN  singleton' = [singleton EXCEPT
               !.buses = made.buses,
               !.instance = made.instance,
               !.known = 0,
               !.origin = "reset",
               !.since = NewDomainEventBus,
               !.last = SingletonCall("reset", 0, <<>>, "none"),
               !.n = @ + 1]
    /\ SingletonOnly

\* DomainEventBusSingleton.setInstance(bus), bus being one made before
setInstance ==
    /\ singleton.n < MaxSingletonCalls
    /\ \E bus \in 1..Len(singleton.buses) :
          singleton' = [singleton EXCEPT
              !.instance = bus,
              !.known = 0,
              !.origin = "set",
              !.since = NewDomainEventBus,
              !.last = SingletonCall("setInstance", 0, <<>>, "none"),
              !.n = @ + 1]
    /\ SingletonOnly

\* DomainEventBusSingleton.getInstance().subscribe(eventType, handler)
subscribeThroughSingleton ==
    /\ singleton.n < MaxSingletonCalls
    /\ \E type \in EventTypes, handler \in HandlerRefs :
          LET got == InstanceGot(singleton)
          IN  singleton' = [singleton EXCEPT
                  !.buses = [got.buses EXCEPT ![got.instance][type] =
                                 Append(@, handler)],
                  !.instance = got.instance,
                  !.known = got.instance,
                  !.origin = IF singleton.instance = 0 THEN "lazy" ELSE @,
                  !.since = [@ EXCEPT ![type] = Append(@, handler)],
                  !.last = SingletonCall("subscribe", got.instance, <<>>, type),
                  !.n = @ + 1]
    /\ SingletonOnly

\* DomainEventBusSingleton.getInstance().publish(event), awaited to its end:
\* delivered lists the handlers of the event's type it invoked
publishThroughSingleton ==
    /\ singleton.n < MaxSingletonCalls
    /\ \E type \in EventTypes :
          LET got == InstanceGot(singleton)
          IN  singleton' = [singleton EXCEPT
                  !.buses = got.buses,
                  !.instance = got.instance,
                  !.known = got.instance,
                  !.origin = IF singleton.instance = 0 THEN "lazy" ELSE @,
                  !.last = SingletonCall("publish", got.instance,
                                         got.buses[got.instance][type], type),
                  !.n = @ + 1]
    /\ SingletonOnly

NextSingleton ==
    \/ getInstance
    \/ reset
    \/ setInstance
    \/ subscribeThroughSingleton
    \/ publishThroughSingleton

SpecSingleton == InitSingleton /\ [][NextSingleton]_vars

-----------------------------------------------------------------------------
(* UuidId: the strings its constructor and its factories accept.  Strings  *)
(* are sequences of character codes.                                       *)

Digits == 48..57            \* '0'..'9'
LowerHex == 97..102         \* 'a'..'f'
UpperHex == 65..70          \* 'A'..'F'
Hyphen == 45                \* '-'
LetterG == 103              \* 'g'

\* [0-9a-f] under the i flag
IsHexDigit(c) == c \in Digits \cup LowerHex \cup UpperHex

\* UUID_REGEX.test(value):
\* /^[0-9a-f]{8}-[0-9a-f]{4}-[1-5][0-9a-f]{3}-[89ab][0-9a-f]{3}-[0-9a-f]{12}$/i
UuidRegexTest(value) ==
    /\ Len(value) = 36
    /\ \A k \in 1..36 :
          CASE k \in {9, 14, 19, 24} -> value[k] = Hyphen
            [] k = 15 -> value[k] \in 49..53
            [] k = 20 -> value[k] \in {56, 57, 97, 98, 65, 66}
            [] OTHER -> IsHexDigit(value[k])

\* UuidId.validate(): the error it throws, if any
validateUuid(value) ==
    IF value = <<>> THEN "ValidationError"
    ELSE IF ~UuidRegexTest(value) THEN "ValidationError"
    ELSE NoError

\* new UuidId(value): the Id constructor stores the value and validates it
NewUuidId(value) ==
    IF validateUuid(value) # NoError
    THEN [threw |-> TRUE, error |-> validateUuid(value), isSuccess |-> FALSE,
          id |-> [cls |-> "null", value |-> JsUndef]]
    ELSE [threw |-> FALSE, error |-> NoError, isSuccess |-> TRUE,
          id |-> UuidId(value)]

\* UuidId.create(value): try { success(new UuidId(value)) } catch { failure }
UuidIdCreate(value) == [NewUuidId(value) EXCEPT !.threw = FALSE]

\* IdFactory.create('uuid', value)
IdFactoryCreate(type, value) ==
    IF type = "uuid" THEN UuidIdCreate(value)
    ELSE [threw |-> FALSE, error |-> "ValidationError", isSuccess |-> FALSE,
          id |-> [cls |-> "null", value |-> JsUndef]]

\* the strings tried: the UUID 123e4567-e89b-Vxxx-Rxxx-426614174000 with a
\* version digit V and a variant digit R, as it is or damaged
VersionDigits == 48..54 \cup {102}
VariantDigits == {55, 56, 57, 97, 98, 99, 65, 66}
Shapes == {"whole", "upper", "empty", "short", "long", "noHyphen", "notHex"}

UuidString(versionDigit, variantDigit, shape) ==
    LET whole == [StrUuid EXCEPT ![15] = versionDigit, ![20] = variantDigit]
    IN  CASE shape = "whole" -> whole
          [] shape = "upper" -> [whole EXCEPT ![4] = 69, ![10] = 69]
          [] shape = "empty" -> <<>>
          [] shape = "short" -> SubSeq(whole, 1, 35)
          [] shape = "long" -> Append(whole, 48)
          [] shape = "noHyphen" -> [whole EXCEPT ![9] = 48]
          [] OTHER -> [whole EXCEPT ![1] = LetterG]

UuidInputs ==
    {[op |-> op, versionDigit |-> v, variantDigit |-> r, shape |-> sh,
      value |-> UuidString(v, r, sh)] :
        op \in {"new", "create", "factory"}, v \in VersionDigits,
        r \in VariantDigits, sh \in Shapes}

NoUuidResult ==
    [op |-> "none", threw |-> FALSE, error |-> NoError, isSuccess |-> FALSE,
     id |-> [cls |-> "null", value |-> JsUndef]]

UuidResult(op, outcome) ==
    [op |-> op, threw |-> outcome.threw, error |-> outcome.error,
     isSuccess |-> outcome.isSuccess, id |-> outcome.id]

InitUuid ==
    /\ now = 0
    /\ resIn \in UuidInputs
    /\ resOut = NoUuidResult
    /\ VOIdle
    /\ AggIdle
    /\ SDIdle
    /\ EmpIdle
    /\ BusIdle
    /\ DepIdle
    /\ EntIdle
    /\ BuilderIdle
    /\ SingletonIdle

\* new UuidId(value)
newUuidId ==
    /\ resIn.op = "new"
    /\ resOut.op = "none"
    /\ resOut' = UuidResult("new", NewUuidId(resIn.value))
    /\ UNCHANGED resIn
    /\ ResOnly

\* UuidId.create(value)
createUuidId ==
    /\ resIn.op = "create"
    /\ resOut.op = "none"
    /\ resOut' = UuidResult("create", UuidIdCreate(resIn.value))
    /\ UNCHANGED resIn
    /\ ResOnly

\* IdFactory.create('uuid', value)
createThroughFactory ==
    /\ resIn.op = "factory"
    /\ resOut.op = "none"
    /\ resOut' = UuidResult("factory", IdFactoryCreate("uuid", resIn.value))
    /\ UNCHANGED resIn
    /\ ResOnly

NextUuid ==
    \/ newUuidId
    \/ createUuidId
    \/ createThroughFactory

SpecUuid == InitUuid /\ [][NextUuid]_vars

-----------------------------------------------------------------------------
(* Properties of the aggregate root.                                       *)

AggPre == aggLast.pre[1]

\* C6 (as stated): between two calls of markEventsAsCommitted() the buffer
\* only grows at its end, whatever operation of the aggregate is used: it
\* holds exactly the events added since the last commit, in the order added.
C6_BufferIsAppendOnly ==
    agg.kind # "none" => getUncommittedEvents(agg) = aggHist.added

\* C6 (amended): as long as the protected removeDomainEvent() and
\* clearDomainEvents() have not been called since the last commit, the
\* buffer holds exactly the events added since then, in the order added.
C6_BufferAppendOnlyWithoutRemoval ==
    (agg.kind # "none" /\ aggHist.removals = 0)
        => getUncommittedEvents(agg) = aggHist.added

C6_Witness ==
    /\ aggHist.removals = 0
    /\ Len(agg.domainEvents) >= 2
    /\ agg.domainEvents[1] # agg.domainEvents[2]
    /\ aggLast.op = "incrementVersion"

\* C7: the version equals the version the aggregate was constructed (or
\* loaded by setVersion) with plus the number of incrementVersion() calls
\* since, and no other public operation changes it.
C7_VersionCountsIncrements ==
    agg.kind # "none" =>
        /\ version(agg) = aggHist.version0 + aggHist.increments
        /\ aggLast.op \notin {"none", "incrementVersion", "setVersion"}
              => version(agg) = version(AggPre)

C7_Witness ==
    /\ aggHist.version0 = 2
    /\ aggHist.increments >= 2
    /\ aggLast.op = "markEventsAsCommitted"
    /\ aggLast.prevOp = "addDomainEvent"

\* C8: markEventsAsCommitted() leaves the buffer empty whatever it held, a
\* second call in a row changes nothing, and the version is never changed.
C8_CommitEmptiesBuffer ==
    aggLast.op = "markEventsAsCommitted" =>
        /\ getUncommittedEvents(agg) = <<>>
        /\ ~hasUncommittedEvents(agg)
        /\ getUncommittedEventsCount(agg) = 0
        /\ version(agg) = version(AggPre)
        /\ aggLast.prevOp = "markEventsAsCommitted" => agg = AggPre

C8_Witness ==
    /\ aggLast.op = "markEventsAsCommitted"
    /\ Len(AggPre.domainEvents) >= 2

\* C10: checkVersion(expected) raises a ConcurrencyError, the domain error
\* with code CONCURRENCY_ERROR, when expected differs from the version, and
\* returns normally, changing nothing, when they are equal.
C10_MismatchRaisesConcurrencyError ==
    aggLast.op = "checkVersion" =>
        IF aggLast.arg # version(AggPre)
        THEN /\ aggLast.error = "ConcurrencyError"
             /\ ErrorCode(aggLast.error) = "CONCURRENCY_ERROR"
        ELSE /\ aggLast.error = NoError
             /\ agg = AggPre

-----------------------------------------------------------------------------
(* Properties of soft delete.                                              *)

SDPre == sdLast.pre[1]

\* C9: delete() raises on a deleted object and restore() on a live one, a
\* failed call changes nothing, a successful delete() sets isDeleted and a
\* successful restore() clears it, so successes alternate.
C9_SoftDeleteGuards ==
    /\ sdLast.op = "delete" =>
          IF isDeleted(SDPre)
          THEN sdLast.error # NoError /\ sd = SDPre
          ELSE sdLast.error = NoError /\ isDeleted(sd)
    /\ sdLast.op = "restore" =>
          IF ~isDeleted(SDPre)
          THEN sdLast.error # NoError /\ sd = SDPre
          ELSE sdLast.error = NoError /\ ~isDeleted(sd)
    /\ (sdLast.op \in {"delete", "restore"} /\ sdLast.error = NoError)
          => sdLast.prevOk # sdLast.op

C9_Witness ==
    /\ sdLast.op = "delete"
    /\ sdLast.error # NoError
    /\ sdLast.prevOk = "delete"
    /\ sd.updatedAt < now

-----------------------------------------------------------------------------
(* Properties of the Employee aggregate.                                   *)

EmployeeMutators ==
    {"updatePersonalData", "updatePosition", "updateSalary", "terminate"}

\* C2: a mutating operation of Employee that fails validation raises and
\* leaves every observable field of the aggregate as it was before the call.
C2_FailedMutationChangesNothing ==
    [][(empLast'.op \in EmployeeMutators /\ empLast'.error # NoError)
          => emp' = emp]_vars

ItemOperations ==
    {"addDocument", "removeDocument", "addContact", "removeContact",
     "addAddress", "removeAddress", "addDependent", "removeDependent",
     "addBenefit", "removeBenefit"}

\* C11: every operation of Employee that changes its state and returns to
\* the caller without raising has refreshed updatedAt and has re-run the
\* full validation, so the Employee it leaves passes validate().
C11_MutationsTouchAndValidate ==
    [][(/\ empLast'.op \in EmployeeMutators \cup ItemOperations
        /\ empLast'.error = NoError
        /\ emp' # emp)
          => /\ emp'.updatedAt = now'
             /\ validate(emp') = NoError]_vars

\* getUncommittedEventsCount() of the Employee
EmpEventsCount(e) == Len(e.domainEvents)

\* C12: every mutating operation of Employee that succeeds appends a
\* DomainEvent: after the call getUncommittedEventsCount() is larger than
\* before it.
C12_MutationAppendsEvent ==
    [][(/\ empLast'.op \in EmployeeMutators
        /\ empLast'.error = NoError
        /\ emp' # emp)
          => EmpEventsCount(emp') > EmpEventsCount(emp)]_vars

-----------------------------------------------------------------------------
(* DomainEventBus claims, under SpecBus.                                   *)

Failing(h) == Behaviour(h) \in {"throw", "reject"}

\* the handlers among the first n invoked by p whose handle(event) failed
FailuresAmong(p, n) == Cardinality({k \in 1..n : Failing(p.invoked[k])})

\* C3: in publish(event) a handler that throws or whose promise rejects is
\* caught and logged and the loop goes on with the next handler: the promise
\* of publish never rejects, a publish that is still running is always
\* waiting on a handler's promise and never stopped at a failure, and a
\* publish that has resolved has invoked every handler of the array it read,
\* unless that array was changed while the publish was running.
C3_HandlerFailureIsIsolated ==
    \A i \in 1..Len(publishes) :
        LET p == publishes[i]
        IN  /\ p.state # "rejected"
            /\ p.logged = FailuresAmong(p, p.completed)
            /\ p.state = "running" => /\ p.awaiting # "none"
                                      /\ ~Failing(p.awaiting) \/ p.completed < Len(p.invoked)
            /\ (p.state = "resolved" /\ ~p.disturbed) => p.invoked = p.list

\* a publish has resolved after a handler that threw, a handler whose promise
\* rejected and then a third handler were invoked, in that order
C3_Witness ==
    \E i \in 1..Len(publishes) :
        /\ publishes[i].state = "resolved"
        /\ ~publishes[i].disturbed
        /\ publishes[i].invoked = <<"hThrow", "hReject", "hOk">>
        /\ publishes[i].logged = 2

\* C4: within one publish(event) the handlers are invoked one at a time in
\* the order of the array, which is the order of subscription: every invoked
\* handler but the last has completed, the handler awaited is the last one
\* invoked, and the handlers invoked so far are the first ones of the array
\* (unless the array was changed while the publish was running), so that
\* nothing after a handler that has not completed has been invoked.
C4_HandlersRunOneAtATimeInOrder ==
    \A i \in 1..Len(publishes) :
        LET p == publishes[i]
            n == Len(p.invoked)
        IN  /\ p.completed >= n - 1
            /\ p.index = n \/ p.disturbed
            /\ p.awaiting # "none" => /\ n > 0
                                      /\ p.completed = n - 1
                                      /\ p.awaiting = p.invoked[n]
            /\ p.awaiting = "none" => p.completed = n
            /\ ~p.disturbed => /\ n <= Len(ArrayOf(p))
                               /\ p.invoked = SubSeq(ArrayOf(p), 1, n)

\* a publish is still waiting on its first handler, with a second handler
\* subscribed after it not invoked, while a publish begun later has gone
\* through both handlers
C4_Witness ==
    \E i, j \in 1..Len(publishes) :
        /\ i < j
        /\ publishes[i].state = "running"
        /\ ~publishes[i].disturbed
        /\ Len(publishes[i].invoked) = 1
        /\ Len(ArrayOf(publishes[i])) = 2
        /\ publishes[j].state = "resolved"
        /\ Len(publishes[j].invoked) = 2

\* C5: publishAll(events) starts a publish for every event of the batch
\* before it waits for any of them (each has invoked its first handler, or
\* had none to invoke), its promise never rejects, and its promise resolves
\* only when the publish of every event has resolved.
C5_PublishAllStartsEveryEvent ==
    batch.state # "none" =>
        /\ Len(batch.pubs) = Len(batch.events)
        /\ \A k \in 1..Len(batch.pubs) :
              LET p == publishes[batch.pubs[k]]
              IN  /\ p.type = batch.events[k]
                  /\ p.invoked # <<>> \/ p.state = "resolved"
                  /\ batch.state = "resolved" => p.state = "resolved"
        /\ batch.state # "rejected"

\* the publish of the first event of a batch is still waiting on a handler
\* while the publish of the second event, of another type, has invoked its
\* handler and resolved; the batch is still pending
C5_Witness ==
    /\ batch.state = "pending"
    /\ Len(batch.pubs) = 2
    /\ batch.events[1] # batch.events[2]
    /\ publishes[batch.pubs[1]].state = "running"
    /\ publishes[batch.pubs[2]].state = "resolved"
    /\ publishes[batch.pubs[2]].invoked # <<>>

\* the number of times h stands in a list of handlers
Occurrences(list, h) == Cardinality({k \in 1..Len(list) : list[k] = h})

C26_SubscribedThroughoutInvokedOnce ==
    \A i \in 1..Len(publishes) :
        LET p == publishes[i]
        IN  (p.state = "resolved" /\ p.disturbed) =>
                \A h \in HandlerRefs :
                    (Occurrences(p.start, h) > 0 /\ Occurrences(p.final, h) > 0)
                        => Occurrences(p.invoked, h) = 1

\* the list without the handler h
Without(list, h) == SelectSeq(list, LAMBDA x : x # h)

\* C30: an unsubscribe(T, h) that finds h leaves h out of the handlers of T
\* (so that no later publish of T invokes it before it is subscribed again),
\* keeps the other handlers of T in their order and the other types as they
\* were; a call that finds nothing to remove changes nothing.
C30_UnsubscribedHandlerIsGone ==
    [][(calls' = calls + 1 /\ Len(publishes') = Len(publishes)
          /\ DOMAIN handlers' = DOMAIN handlers) =>
         /\ handlers' = handlers => publishes' = publishes
         /\ \A type \in DOMAIN handlers :
              \A h \in HandlerRefs :
                  Len(handlers'[type]) < Len(handlers[type])
                  /\ Occurrences(handlers'[type], h) < Occurrences(handlers[type], h)
                      => /\ Occurrences(handlers'[type], h) = 0
                         /\ Without(handlers'[type], h) = Without(handlers[type], h)
                         /\ \A other \in DOMAIN handlers \ {type} :
                               handlers'[other] = handlers[other]]_vars

-----------------------------------------------------------------------------
(* Properties of Result, Either and Maybe, under SpecRes.                  *)

\* C17: a Result, an Either and a Maybe is in exactly one of its two states;
\* reading the payload of the other state throws, and reading the payload of
\* its own state returns exactly the value it was made from, null and
\* undefined included for Result and Either.
C17_WrongStateReadThrows ==
    resOut.op = "read" =>
        LET x == resIn.box
            given == Returned(resIn.arg, 0)
        IN  CASE resIn.how = "success" ->
                    /\ isSuccess(x) /\ ~isFailure(x)
                    /\ resOut.a = given /\ resOut.b.threw
              [] resIn.how = "failure" ->
                    /\ isFailure(x) /\ ~isSuccess(x)
                    /\ resOut.a.threw /\ resOut.b = given
              [] resIn.how = "left" ->
                    /\ isLeft(x) /\ ~isRight(x)
                    /\ resOut.a = given /\ resOut.b.threw
              [] resIn.how = "right" ->
                    /\ isRight(x) /\ ~isLeft(x)
                    /\ resOut.a.threw /\ resOut.b = given
              [] resIn.how = "some" ->
                    /\ isSome(x) /\ ~isNone(x)
                    /\ resOut.a = given
              [] OTHER ->
                    /\ isNone(x) /\ ~isSome(x)
                    /\ resOut.a.threw

\* value has thrown and error has returned undefined on Result.failure(undefined)
C17_Witness ==
    /\ resOut.op = "read"
    /\ resIn.how = "failure"
    /\ resIn.arg = JsUndef
    /\ resOut.a.threw
    /\ resOut.b = Returned(JsUndef, 0)

\* C18: map(f) on success(x) / right(x) returns success(f(x)) / right(f(x))
\* when f does not throw, and then getOrElse(d) is f(x); when f throws t it
\* returns failure(t) / left(t); on failure(e) / left(e) it returns
\* failure(e) / left(e) and never calls f.  map itself never throws.
C18_MapAppliesOrCarriesFailure ==
    resOut.op = "map" =>
        LET fx == Apply(resIn.fn, resIn.arg)
            out == resOut.a
        IN  /\ ~out.threw
            /\ CASE resIn.how = "success" ->
                       IF fx.threw THEN out.box = Failure(fx.value)
                       ELSE /\ out.box = Success(fx.value)
                            /\ resOut.b.value = fx.value
                            /\ out.calls = 1
                 [] resIn.how = "failure" ->
                       out.box = Failure(resIn.arg) /\ out.calls = 0
                 [] resIn.how = "right" ->
                       IF fx.threw THEN out.box = Left(fx.value)
                       ELSE out.box = Right(fx.value) /\ out.calls = 1
                 [] OTHER ->
                       out.box = Left(resIn.arg) /\ out.calls = 0

\* a success mapped by a function that throws has become a failure carrying
\* what was thrown
C18_Witness ==
    /\ resOut.op = "map"
    /\ resIn.how = "success"
    /\ resIn.fn = "throws"
    /\ resOut.a.box = Failure(JsError(MsgT))

\* two outcomes are the same by what was returned or thrown
SameOutcome(o1, o2) ==
    /\ o1.threw = o2.threw
    /\ o1.value = o2.value
    /\ o1.box = o2.box

\* C19: for every Result r and Result-returning f and g,
\* r.flatMap(Result.success) equals r, r.flatMap(f).flatMap(g) equals
\* r.flatMap(x => f(x).flatMap(g)) by state and payload, and on a failure
\* flatMap returns a failure with the same error without calling f.
C19_FlatMapMonadLaws ==
    resOut.op = "flatMap" =>
        /\ ~resOut.c.threw
        /\ resOut.c.box = resIn.box
        /\ SameOutcome(resOut.a, resOut.b)
        /\ resIn.how = "failure" =>
              /\ ~resOut.a.threw
              /\ resOut.a.box = Failure(resIn.arg)
              /\ resOut.a.calls = 0
              /\ resOut.b.calls = 0
              /\ resOut.c.calls = 0

\* success(null) chained through x => success(x) and the function failing
\* on null: both sides are the failure E2 after two calls
C19_Witness ==
    /\ resOut.op = "flatMap"
    /\ resIn.how = "success"
    /\ resIn.arg = JsNull
    /\ resIn.fns = <<"success">>
    /\ resIn.gns = <<"failureOnNull">>
    /\ resOut.a.box = Failure(JsError(MsgE2))
    /\ resOut.a.calls = 2
    /\ resOut.b.calls = 2

\* the least position from `from` on at which part occurs in text, 0 if none
FindFrom(text, part, from) ==
    LET hits == {i \in from..(Len(text) - Len(part) + 1) :
                    SubSeq(text, i, i + Len(part) - 1) = part}
    IN  IF hits = {} THEN 0 ELSE CHOOSE i \in hits : \A j \in hits : i <= j

RECURSIVE ContainsInOrder(_, _, _)
\* text contains the parts one after the other, from position `from` on
ContainsInOrder(text, parts, from) ==
    IF parts = <<>> THEN TRUE
    ELSE LET at == FindFrom(text, parts[1], from)
         IN  /\ at > 0
             /\ ContainsInOrder(text, Tail(parts), at + Len(parts[1]))

\* C20: Result.combine(list) is a failure whose message contains the message
\* of every failing element, in list order, when at least one element fails;
\* otherwise (the empty list included) it is a success whose value is the
\* list of the elements' values in list order.
C20_CombineCollectsEveryFailure ==
    resOut.op = "combine" =>
        LET list == resIn.list
            out == resOut.a.box
            Fails(r) == ~r.flag
            failing == SelectSeq(list, Fails)
        IN  IF failing # <<>>
            THEN /\ isFailure(out)
                 /\ ContainsInOrder(out.second.s,
                                    [i \in 1..Len(failing) |-> failing[i].second.s], 1)
            ELSE /\ isSuccess(out)
                 /\ out.first = JsArr([i \in 1..Len(list) |-> list[i].first])

\* a list failing at its first and its last element, with a success between
C20_Witness ==
    /\ resOut.op = "combine"
    /\ Len(resIn.list) = 3
    /\ ~resIn.list[1].flag
    /\ resIn.list[2].flag
    /\ ~resIn.list[3].flag
    /\ resIn.list[1] # resIn.list[3]
    /\ isFailure(resOut.a.box)


\* C21: Maybe.some(x) throws on null and undefined and otherwise returns a
\* some holding x, 0, false and '' included; Maybe.fromNullable(x) is none on
\* null and undefined and some(x) otherwise; map(f) never throws, and on a
\* some it is none when f throws or yields null or undefined.
C21_MaybeSomeAssertsPresence ==
    resOut.op = "maybe" =>
        LET x == resIn.arg
            absent == x \in {JsNull, JsUndef}
            someX == resOut.a
            nullable == resOut.b
            mapped == resOut.c
        IN  /\ absent => someX.threw
            /\ ~absent => /\ ~someX.threw
                          /\ isSome(someX.box) /\ ~isNone(someX.box)
                          /\ MaybeValue(someX.box) = Returned(x, 0)
            /\ ~nullable.threw
            /\ absent => isNone(nullable.box)
            /\ ~absent => nullable = someX
            /\ ~mapped.threw
            /\ mapped.box.tag = "Maybe"
            /\ (~absent /\ resIn.fn \in {"throws", "toNull", "toUndefined"})
                  => isNone(mapped.box)
            /\ (~absent /\ resIn.fn = "twice")
                  => MaybeValue(mapped.box) = Returned(Twice(x), 0)

\* map with a function that throws has returned none on some(0)
C21_Witness ==
    /\ resOut.op = "maybe"
    /\ resIn.arg = JsNum(0)
    /\ resIn.fn = "throws"
    /\ isSome(resOut.a.box)
    /\ isNone(resOut.c.box)
    /\ resOut.c.calls = 1

-----------------------------------------------------------------------------
(* Properties of specifications, under SpecBuilder.                        *)

\* C22: build() of a builder holding s1..sn (n >= 1) is satisfied by a
\* candidate exactly when every si is, buildOr() exactly when some si is; on
\* an empty builder both give a specification every candidate satisfies;
\* and(), or() and not() return a new specification, with the meaning of the
\* connective, and leave every specification made before as it was.
C22_BuilderReducesWithAndOr ==
    LET call == builder.last
        objects == builder.objects
        leaves == builder.specifications
        Sat(ref, c) == isSatisfiedBy(objects, ref, c)
        Kept == SubSeq(objects, 1, Len(call.pre)) = call.pre
    IN  /\ call.op \in {"build", "buildOr"} /\ leaves = <<>> =>
              \A c \in Candidates : Sat(call.result, c)
        /\ call.op = "build" /\ leaves # <<>> =>
              \A c \in Candidates :
                  Sat(call.result, c) <=> \A k \in 1..Len(leaves) : Sat(leaves[k], c)
        /\ call.op = "buildOr" /\ leaves # <<>> =>
              \A c \in Candidates :
                  Sat(call.result, c) <=> \E k \in 1..Len(leaves) : Sat(leaves[k], c)
        /\ call.op \in {"build", "buildOr"} => Kept
        /\ call.op \in {"and", "or", "not"} =>
              /\ Kept
              /\ call.result = Len(call.pre) + 1
              /\ \A c \in Candidates :
                    Sat(call.result, c) <=>
                        CASE call.op = "and" -> Sat(call.this, c) /\ Sat(call.other, c)
                          [] call.op = "or" -> Sat(call.this, c) \/ Sat(call.other, c)
                          [] OTHER -> ~Sat(call.this, c)

\* build() has reduced three conditions that no single pair decides: some
\* candidate satisfies the first two and not the third
C22_Witness ==
    /\ builder.last.op = "build"
    /\ Len(builder.specifications) = 3
    /\ \E c \in Candidates :
          /\ isSatisfiedBy(builder.objects, builder.specifications[1], c)
          /\ isSatisfiedBy(builder.objects, builder.specifications[2], c)
          /\ ~isSatisfiedBy(builder.objects, builder.specifications[3], c)
          /\ ~isSatisfiedBy(builder.objects, builder.last.result, c)

-----------------------------------------------------------------------------
(* Properties of the event bus singleton, under SpecSingleton.             *)

\* C24: getInstance() makes the bus when there is none and afterwards
\* returns the same bus at every call until reset() or setInstance();
\* reset() installs a bus made at that moment, with no handler, so that an
\* event published through the singleton after a reset reaches the handlers
\* subscribed through it since the reset and no handler subscribed before.
C24_SingletonLifecycle ==
    LET call == singleton.last
    IN  /\ call.op \in {"getInstance", "subscribe", "publish"} =>
              /\ call.result = singleton.instance
              /\ call.result \in 1..Len(singleton.buses)
              /\ call.known # 0 => call.result = call.known
        /\ call.op = "reset" =>
              /\ singleton.instance = Len(call.pre) + 1
              /\ singleton.buses[singleton.instance] = NewDomainEventBus
              /\ SubSeq(singleton.buses, 1, Len(call.pre)) = call.pre
        /\ singleton.origin = "reset" =>
              singleton.buses[singleton.instance] = singleton.since
        /\ (call.op = "publish" /\ singleton.origin = "reset") =>
              call.delivered = singleton.since[call.type]

\* a handler was subscribed through the singleton, reset() was called, and
\* an event of the handler's type published through the singleton afterwards
\* was delivered to nobody
C24_Witness ==
    /\ singleton.last.op = "publish"
    /\ singleton.origin = "reset"
    /\ singleton.last.delivered = <<>>
    /\ \E bus \in 1..Len(singleton.buses) :
          /\ bus # singleton.instance
          /\ singleton.buses[bus][singleton.last.type] # <<>>

-----------------------------------------------------------------------------
(* Properties of UuidId, under SpecUuid.                                   *)

\* C25: a UuidId is built exactly from the strings in the version-4 format
\* (36 characters, hyphens in place, hexadecimal digits, version digit 4,
\* variant digit 8, 9, a or b); for every other string the constructor throws
\* a ValidationError and create, like IdFactory.create('uuid', ...), returns
\* a failure holding it.
C25_OnlyVersion4Accepted ==
    resOut.op # "none" =>
        LET version4 == /\ resIn.shape \in {"whole", "upper"}
                        /\ resIn.versionDigit = 52
                        /\ resIn.variantDigit \in {56, 57, 97, 98, 65, 66}
        IN  /\ version4 => /\ resOut.isSuccess
                           /\ ~resOut.threw
                           /\ resOut.id = UuidId(resIn.value)
            /\ ~version4 => /\ ~resOut.isSuccess
                            /\ resOut.error = "ValidationError"
                            /\ resOut.threw <=> resOut.op = "new"

-----------------------------------------------------------------------------
(* Properties of construction, under SpecConstruction.                     *)

\* C27: new Employee(...), and new User(...) of the README, called with
\* arguments that satisfy every rule of the class's validate(), completes
\* without raising.
C27_ValidArgumentsConstruct ==
    (empLast.op \in {"newEmployee", "newUser"} /\ empLast.valid)
        => empLast.error = NoError

\* C29: on an AuditableAggregateRoot an operation that supplies an actor
\* leaves updatedBy naming that actor, and an operation without one
\* (incrementVersion(), addDomainEvent(), a mutator called with updatedBy left
\* out) refreshes updatedAt but leaves updatedBy as it was, so updatedBy names
\* the actor of the most recent operation that supplied one.
C29_UpdatedByKeepsLastActor ==
    [][(empLast'.op \in AuditedOperations /\ emp' # emp)
          => /\ emp'.updatedAt = now'
             /\ emp'.updatedBy = IF empLast'.actor = "undefined"
                                 THEN emp.updatedBy
                                 ELSE empLast'.actor]_vars

=============================================================================
